---- MODULE Spec2Model ----
(***************************************************************************)
(* Hotel metrics ingestion API (web_old/server/app.py) and the forecast    *)
(* feature pipeline (MODEL/prophet_python.py,                              *)
(* web_old/server/model/prophet_python.py) as state machines.              *)
(*                                                                         *)
(* Numbers submitted to the API are kept in tenths (105 is 10.5), so that  *)
(* int(float(x)) truncation is visible.  Dates are day ordinals counted    *)
(* from 2025-01-01 (ordinal 0).                                            *)
(***************************************************************************)
EXTENDS Integers, Sequences, FiniteSets, TLC

VARIABLES
    session,      \* Flask session: keys user, user_role, user_full_name
    last_login,   \* users.last_login, per username: has it been set
    hotel_data,   \* the hotel_data table, in insertion order
    openConns,    \* connections opened by a request and not closed at its return
    req,          \* the request handled last (history)
    resp,         \* the response returned last
    inflight,     \* save_hotel_data calls in progress, per worker thread
    df,           \* observation table of the forecast pipeline
    prophet_data, \* feature table built by prepare_prophet_data
    future,       \* future table built by predict_for_dates / add_regressors
    pipe,         \* what the pipeline did last (history)
    files,        \* the model files on disk, per path
    model,        \* the trained model the caller holds
    forecast,     \* the predictions returned last
    trials,       \* hyperopt Trials of the search
    output        \* the text reports on disk, per path, and the path returned last

webVars   == <<session, last_login, hotel_data, openConns, req, resp>>
featVars  == <<df, prophet_data, future, pipe>>
modelVars == <<files, model, forecast, trials, output>>
vars      == <<session, last_login, hotel_data, openConns, req, resp, inflight,
               df, prophet_data, future, pipe, files, model, forecast, trials,
               output>>

(***************************************************************************)
(* Bounds of the model.                                                    *)
(***************************************************************************)
MaxRows == 2
MaxLeak == 1

(***************************************************************************)
(* Submitted field values.  k is the kind of text (or JSON value) sent:    *)
(*   "num"  a finite decimal number, n its value in tenths                 *)
(*   "nan"  the text nan;  "inf" the text inf (n its sign)                 *)
(*   "date" a YYYY-MM-DD text, n its day ordinal                           *)
(*   "str"  any other non-blank text s                                     *)
(*   "blank" only white space;  "missing" the key is not sent              *)
(*   "null" JSON null (api_submit only)                                    *)
(***************************************************************************)
Num(n)  == [k |-> "num", n |-> n, s |-> ""]
NaN     == [k |-> "nan", n |-> 0, s |-> ""]
Inf     == [k |-> "inf", n |-> 1, s |-> ""]
Date(d) == [k |-> "date", n |-> d, s |-> ""]
Str(t)  == [k |-> "str", n |-> 0, s |-> t]
Blank   == [k |-> "blank", n |-> 0, s |-> ""]
Missing == [k |-> "missing", n |-> 0, s |-> ""]
Null    == [k |-> "null", n |-> 0, s |-> ""]

Absent == "<absent>"

\* float(x) succeeds on these kinds and raises ValueError/TypeError otherwise
FloatParses(v) == v.k \in {"num", "nan", "inf"}

\* int(float(x)): truncation toward zero; raises on nan (ValueError) and inf (OverflowError)
IntParses(v) == v.k = "num"

Trunc(n) == IF n >= 0 THEN n \div 10 ELSE -((-n) \div 10)

\* datetime.strptime(x, "%Y-%m-%d") succeeds
DateParses(v) == v.k = "date"

\* Python comparisons on floats: every comparison with nan is False
FloatLt(v, bound) ==
    CASE v.k = "num" -> v.n < bound
      [] v.k = "inf" -> v.n < 0
      [] OTHER -> FALSE

FloatGt(v, bound) ==
    CASE v.k = "num" -> v.n > bound
      [] v.k = "inf" -> v.n > 0
      [] OTHER -> FALSE

(***************************************************************************)
(* The users table and verify_user.                                        *)
(***************************************************************************)
hash_password(password) == <<"sha256", password>>

users ==
    { [username |-> "alice", password_hash |-> hash_password("pw1"),
       full_name |-> "Alice A", role |-> "admin", is_active |-> TRUE],
      [username |-> "bob", password_hash |-> hash_password("pw2"),
       full_name |-> "Bob B", role |-> "staff", is_active |-> FALSE] }

Usernames == {u.username : u \in users}

\* Outcomes of the database layer for one request
DbFaults == {"none", "connect", "query", "lost"}

NoUser == [username |-> Absent, full_name |-> Absent, role |-> Absent]

\* a query that does not ask for is_active = TRUE
verify_user_any_status(username, password, fault) ==
    LET match == {u \in users : /\ u.username = username
                                /\ u.password_hash = hash_password(password)}
    IN  IF fault # "none" \/ match = {}
        THEN NoUser
        ELSE LET u == CHOOSE x \in match : TRUE
             IN  [username |-> u.username, full_name |-> u.full_name, role |-> u.role]

\* verify_user: the matching active user, or NoUser (None); fault is what the
\* database layer does during the call
verify_user(username, password, fault) ==
    LET match == {u \in users : /\ u.username = username
                                /\ u.password_hash = hash_password(password)
                                /\ u.is_active}
    IN  IF fault # "none" \/ match = {}
        THEN NoUser
        ELSE LET u == CHOOSE x \in match : TRUE
             IN  [username |-> u.username, full_name |-> u.full_name, role |-> u.role]

(***************************************************************************)
(* Submissions: the 17 fields of /submit and /api/submit.                  *)
(***************************************************************************)
required_fields ==
    << "Total Room Inventory", "Rooms Sold", "Arrival Rooms", "Compliment Rooms",
       "House Use", "Individual Confirm", "Occupancy %", "Room Revenue", "ARR",
       "Departure Rooms", "OOO Rooms", "Pax", "snapshot_date", "arrival_date",
       "actual_or_forecast", "Day", "revenue_diff" >>

numeric_fields ==
    << "Total Room Inventory", "Rooms Sold", "Arrival Rooms", "Compliment Rooms",
       "House Use", "Individual Confirm", "Occupancy %", "Room Revenue", "ARR",
       "Departure Rooms", "OOO Rooms", "Pax", "revenue_diff" >>

\* the columns filled with int(float(...)) other than inventory and rooms sold
int_fields ==
    << "Arrival Rooms", "Compliment Rooms", "House Use", "Individual Confirm",
       "Departure Rooms", "OOO Rooms", "Pax" >>

Range(seq) == {seq[i] : i \in DOMAIN seq}

FieldNames == Range(required_fields)

\* a well-formed submission: 10 rooms, 8 sold, 80.0 %, revenue 1000.0, ARR 125.0
BaseForm(snap, aof) ==
    [f \in FieldNames |->
        CASE f = "Total Room Inventory" -> Num(100)
          [] f = "Rooms Sold"           -> Num(80)
          [] f = "Arrival Rooms"        -> Num(30)
          [] f = "Compliment Rooms"     -> Num(0)
          [] f = "House Use"            -> Num(0)
          [] f = "Individual Confirm"   -> Num(20)
          [] f = "Occupancy %"          -> Num(800)
          [] f = "Room Revenue"         -> Num(10000)
          [] f = "ARR"                  -> Num(1250)
          [] f = "Departure Rooms"      -> Num(20)
          [] f = "OOO Rooms"            -> Num(0)
          [] f = "Pax"                  -> Num(150)
          [] f = "snapshot_date"        -> Date(snap)
          [] f = "arrival_date"         -> Date(20)
          [] f = "actual_or_forecast"   -> Str(aof)
          [] f = "Day"                  -> Str("Monday")
          [] f = "revenue_diff"         -> Num(-50)]

\* the (snapshot date, forecast type) pairs submitted; the arrival date is day 20
Triples == { <<10, "actual">>, <<10, "forecast">>, <<11, "actual">> }

\* one field of a well-formed submission replaced
Perturbations ==
    { <<"Total Room Inventory", Missing>>, <<"Total Room Inventory", Str("abc")>>,
      <<"Total Room Inventory", NaN>>, <<"Total Room Inventory", Num(70)>>,
      <<"Total Room Inventory", Num(109)>>,
      <<"Rooms Sold", Blank>>, <<"Rooms Sold", Inf>>, <<"Rooms Sold", Num(89)>>,
      <<"Rooms Sold", Num(109)>>, <<"Rooms Sold", Num(110)>>,
      <<"Occupancy %", Str("abc")>>, <<"Occupancy %", NaN>>, <<"Occupancy %", Null>>,
      <<"Occupancy %", Num(-1)>>, <<"Occupancy %", Num(1000)>>,
      <<"Occupancy %", Num(1001)>>, <<"Occupancy %", Num(1010)>>,
      <<"Room Revenue", NaN>>, <<"Room Revenue", Num(-1)>>, <<"Room Revenue", Num(0)>>,
      <<"ARR", Inf>>, <<"ARR", Num(-1)>>,
      <<"Pax", Str("many")>>, <<"Pax", NaN>>, <<"Pax", Num(157)>>,
      <<"Arrival Rooms", Missing>>,
      <<"revenue_diff", Str("abc")>>,
      <<"snapshot_date", Missing>>, <<"snapshot_date", Str("2025/01/11")>>,
      <<"snapshot_date", Null>>,
      <<"arrival_date", Str("20-01-2025")>>,
      <<"actual_or_forecast", Blank>>,
      <<"Day", Missing>> }

\* the bodies posted: a well-formed one per triple, and the first with one field replaced
JsonBodies ==
    { BaseForm(t[1], t[2]) : t \in Triples }
    \cup { [BaseForm(10, "actual") EXCEPT ![p[1]] = p[2]] : p \in Perturbations }

\* a form post carries text only
Forms == { d \in JsonBodies : \A f \in FieldNames : d[f].k # "null" }

(***************************************************************************)
(* The hotel_data table and save_hotel_data.                               *)
(***************************************************************************)
Msg(text, raw) == [text |-> text, raw |-> raw]
NoMsg == Msg("", FALSE)

MsgDuplicate ==
    Msg("A record for this snapshot date, arrival date, and forecast type already exists", FALSE)
MsgForeignKey == Msg("Invalid user reference - please log in again", FALSE)
MsgConstraint == Msg("Database constraint violation: {e}", TRUE)
MsgOutOfRange ==
    Msg("One or more values are out of acceptable range. Please check your input values.", FALSE)
MsgDataError == Msg("Data validation error: {e}", TRUE)
MsgDbError == Msg("Failed to save data to database: {e}", TRUE)
MsgConnect == Msg("Unexpected error occurred: Database connection failed: {e}", TRUE)
MsgOccupancy ==
    Msg("Unexpected error occurred: Occupancy percentage must be between 0 and 100", FALSE)
MsgRoomsSold == Msg("Unexpected error occurred: Rooms sold cannot exceed total inventory", FALSE)
MsgRevenue == Msg("Unexpected error occurred: Room revenue cannot be negative", FALSE)
MsgArr == Msg("Unexpected error occurred: ARR cannot be negative", FALSE)
MsgConversion == Msg("Unexpected error occurred: cannot convert value to a number", FALSE)

\* what the store does with the INSERT, besides the checks modelled below
SaveFaults ==
    {"none", "connect", "lost", "integrity_fk", "integrity_other",
     "data_range", "data_other", "error"}

\* what cursor.callproc('ValidateHotelData', ...) does
ProcOutcomes == {"unavailable", "valid", "invalid"}

\* line 373: the occupancy check passes
OccupancyOK(occ) == ~(FloatLt(occ, 0) \/ FloatGt(occ, 1000))

\* line 379: the rooms-sold check passes, on the truncated integers
RoomsSoldOK(rooms_sold, total_inventory) == ~(rooms_sold > total_inventory)

\* lines 405-408
RevenueOK(room_revenue) == ~FloatLt(room_revenue, 0)
ArrOK(arr) == ~FloatLt(arr, 0)

\* the values tuple of lines 421-440, as the row the INSERT would store
Values(data, snapshot_date, arrival_date, sess) ==
    [ total_room_inventory |-> Trunc(data["Total Room Inventory"].n),
      rooms_sold           |-> Trunc(data["Rooms Sold"].n),
      arrival_rooms        |-> Trunc(data["Arrival Rooms"].n),
      compliment_rooms     |-> Trunc(data["Compliment Rooms"].n),
      house_use            |-> Trunc(data["House Use"].n),
      individual_confirm   |-> Trunc(data["Individual Confirm"].n),
      occupancy_percentage |-> data["Occupancy %"].n,
      room_revenue         |-> data["Room Revenue"].n,
      arr                  |-> data["ARR"].n,
      departure_rooms      |-> Trunc(data["Departure Rooms"].n),
      ooo_rooms            |-> Trunc(data["OOO Rooms"].n),
      pax                  |-> Trunc(data["Pax"].n),
      snapshot_date        |-> snapshot_date,
      arrival_date         |-> arrival_date,
      actual_or_forecast   |-> data["actual_or_forecast"].s,
      day_of_week          |-> data["Day"].s,
      revenue_diff         |-> data["revenue_diff"].n,
      created_by           |-> IF sess.user = Absent THEN "unknown" ELSE sess.user ]

\* the float parameters of the INSERT that are no SQL number (nan, inf)
NonFinite(data) ==
    \E f \in {"Occupancy %", "Room Revenue", "ARR", "revenue_diff"} : data[f].k # "num"

Key(row) == <<row.snapshot_date, row.arrival_date, row.actual_or_forecast>>

\* the table's unique key unique_entry on (snapshot_date, arrival_date, actual_or_forecast)
unique_entry(table, row) == \A i \in DOMAIN table : Key(table[i]) # Key(row)

\* cursor.execute(query, values); connection.commit(): "ok" or the exception raised
Execute(table, data, row, fault) ==
    CASE fault \in {"lost", "error"}   -> "Error"
      [] NonFinite(data)               -> "Error"
      [] ~unique_entry(table, row)     -> "IntegrityError: unique_entry"
      [] fault = "integrity_fk"        -> "IntegrityError: foreign key constraint"
      [] fault = "integrity_other"     -> "IntegrityError"
      [] fault = "data_range"          -> "DataError: out of range"
      [] fault = "data_other"          -> "DataError"
      [] OTHER                         -> "ok"

\* an except clause that does not recognise the duplicate-key error
TranslateDbErrorGeneric(e) ==
    CASE e = "IntegrityError: foreign key constraint"  -> MsgForeignKey
      [] e \in {"IntegrityError", "IntegrityError: unique_entry"} -> MsgConstraint
      [] e = "DataError: out of range"                 -> MsgOutOfRange
      [] e = "DataError"                               -> MsgDataError
      [] OTHER                                         -> MsgDbError

\* the except clauses of lines 446-465
TranslateDbError(e) ==
    CASE e = "IntegrityError: unique_entry"            -> MsgDuplicate
      [] e = "IntegrityError: foreign key constraint"  -> MsgForeignKey
      [] e = "IntegrityError"                          -> MsgConstraint
      [] e = "DataError: out of range"                 -> MsgOutOfRange
      [] e = "DataError"                               -> MsgDataError
      [] OTHER                                         -> MsgDbError

\* the row as stored: the AUTO_INCREMENT id added
Stored(table, row) == [id |-> Len(table) + 1] @@ row

\* a statement that writes the values over the newest row when there is one
InsertOverwriting(table, row) ==
    IF table = <<>> THEN <<Stored(table, row)>>
    ELSE [table EXCEPT ![Len(table)] = [id |-> Len(table)] @@ row]

\* an INSERT that is never committed: the row is gone when the connection closes
InsertUncommitted(table, row) == table

\* lines 410-443: INSERT INTO hotel_data (...) VALUES (...); commit
Insert(table, row) == Append(table, Stored(table, row))

\* save_hotel_data: [raised, msg, table, opened, leaked]
\*   raised: an Exception leaves the function, with message msg
\*   table : hotel_data after the call
\*   opened: connections opened;  leaked: of these, still open at the return
save_hotel_data(data, snapshot_date, arrival_date, sess, table, fault, proc) ==
    LET Raise(m) == [raised |-> TRUE, msg |-> m, table |-> table,
                     opened |-> 1, leaked |-> 0]
        occupancy_pct == data["Occupancy %"]
        row == Values(data, snapshot_date, arrival_date, sess)
        e   == Execute(table, data, row, fault)
    IN  CASE fault = "connect" ->
                [raised |-> TRUE, msg |-> MsgConnect, table |-> table,
                 opened |-> 0, leaked |-> 0]
          [] fault # "connect" /\ ~FloatParses(occupancy_pct) -> Raise(MsgConversion)
          [] OTHER ->
             IF ~OccupancyOK(occupancy_pct) THEN Raise(MsgOccupancy)
             ELSE IF ~IntParses(data["Total Room Inventory"]) \/ ~IntParses(data["Rooms Sold"])
                  THEN Raise(MsgConversion)
             ELSE IF ~RoomsSoldOK(Trunc(data["Rooms Sold"].n),
                                  Trunc(data["Total Room Inventory"].n))
                  THEN Raise(MsgRoomsSold)
             \* the stored procedure's verdict (proc) is logged and not acted on;
             \* an Error it raises is logged and swallowed
             ELSE IF ~FloatParses(data["Room Revenue"]) \/ ~FloatParses(data["ARR"])
                  THEN Raise(MsgConversion)
             ELSE IF ~RevenueOK(data["Room Revenue"]) THEN Raise(MsgRevenue)
             ELSE IF ~ArrOK(data["ARR"]) THEN Raise(MsgArr)
             ELSE IF (\E f \in Range(int_fields) : ~IntParses(data[f]))
                     \/ ~FloatParses(data["revenue_diff"])
                  THEN Raise(MsgConversion)
             ELSE IF e # "ok" THEN Raise(TranslateDbError(e))
             ELSE [raised |-> FALSE, msg |-> NoMsg,
                   table |-> Insert(table, row),
                   opened |-> 1, leaked |-> 0]

(***************************************************************************)
(* Requests and responses.                                                 *)
(***************************************************************************)
NoForm == [f \in FieldNames |-> Missing]

IntArg(n) == [k |-> "int", n |-> n, s |-> ""]

\* query-string and login parameters of a request; Missing where not sent
NoArgs ==
    [ page |-> Missing, limit |-> Missing, start_date |-> Missing, end_date |-> Missing,
      actual_or_forecast |-> Missing, sort_by |-> Missing, sort_order |-> Missing,
      record_id |-> Missing, username |-> Missing, password |-> Missing ]

NoPagination ==
    [ page |-> 0, limit |-> 0, total_records |-> 0, total_pages |-> 0,
      has_next |-> FALSE, has_prev |-> FALSE, sort_by |-> "", sort_order |-> "" ]

\* the SQL text and the bound parameters of the main query of api_get_data
NoQuery == [text |-> <<>>, params |-> <<>>]

Response(code, body, msg) ==
    [code |-> code, body |-> body, msg |-> msg, rows |-> <<>>, summary |-> <<>>,
     pagination |-> NoPagination, query |-> NoQuery]

NoResponse == Response(0, "", NoMsg)

\* h: the endpoint; authed: 'user' in session when the request arrived;
\* opened: connections the request opened
Request(h, is_json, data, fault, proc, args, opened) ==
    [ h |-> h, is_json |-> is_json, authed |-> session.user # Absent, data |-> data,
      fault |-> fault, proc |-> proc, args |-> args, opened |-> opened ]

NoRequest ==
    [ h |-> "", is_json |-> FALSE, authed |-> FALSE, data |-> NoForm,
      fault |-> "none", proc |-> "unavailable", args |-> NoArgs, opened |-> 0 ]

\* what a handler leaves behind
Outcome(response, table, opened, leaked) ==
    [resp |-> response, table |-> table, opened |-> opened, leaked |-> leaked]

\* require_login: the response of the decorator when 'user' is not in the session
LoginRequired(is_json) ==
    IF is_json THEN Response(401, "AUTHENTICATION_REQUIRED", NoMsg)
    ELSE Response(302, "redirect: login", NoMsg)

require_login(sess) == sess.user # Absent

(***************************************************************************)
(* /submit and /api/submit.                                                *)
(***************************************************************************)
\* line 226 / line 291: the required fields that are absent or blank
MissingFields(data) == {f \in FieldNames : data[f].k \in {"missing", "blank"}}

submit_handler(data, sess, table, fault, proc) ==
    IF MissingFields(data) # {}
    THEN Outcome(Response(400, "Error: Missing required fields", NoMsg), table, 0, 0)
    ELSE IF ~DateParses(data["snapshot_date"]) \/ ~DateParses(data["arrival_date"])
    THEN Outcome(Response(400, "Error: Invalid date format", NoMsg), table, 0, 0)
    ELSE IF \E f \in Range(numeric_fields) : ~FloatParses(data[f])
    THEN Outcome(Response(400, "Error: Field must be a valid number", NoMsg), table, 0, 0)
    ELSE LET r == save_hotel_data(data, data["snapshot_date"].n, data["arrival_date"].n,
                                  sess, table, fault, proc)
         IN  IF r.raised
             THEN Outcome(Response(500, "Internal server error: {e}", r.msg),
                          r.table, r.opened, r.leaked)
             ELSE Outcome(Response(302, "redirect: /", NoMsg), r.table, r.opened, r.leaked)

\* strptime on a field of the JSON body: "ok", "ValueError" (a text that is no
\* YYYY-MM-DD date) or "TypeError" (not a text)
Strptime(v) ==
    CASE v.k = "date" -> "ok"
      [] v.k = "null" -> "TypeError"
      [] OTHER -> "ValueError"

\* lines 307-323: the first of the two dates that fails decides the response
DateError(data) ==
    IF Strptime(data["snapshot_date"]) # "ok" THEN Strptime(data["snapshot_date"])
    ELSE Strptime(data["arrival_date"])

\* empty: the JSON body is empty ({} or null)
api_submit_handler(is_json, empty, data, sess, table, fault, proc) ==
    IF ~is_json
    THEN Outcome(Response(400, "INVALID_CONTENT_TYPE", NoMsg), table, 0, 0)
    ELSE IF empty
    THEN Outcome(Response(400, "EMPTY_BODY", NoMsg), table, 0, 0)
    ELSE IF MissingFields(data) # {}
    THEN Outcome(Response(400, "MISSING_FIELDS", NoMsg), table, 0, 0)
    ELSE IF DateError(data) = "ValueError"
    THEN Outcome(Response(400, "INVALID_DATE_FORMAT", NoMsg), table, 0, 0)
    ELSE IF DateError(data) = "TypeError"
    THEN Outcome(Response(400, "DATE_PARSING_ERROR", NoMsg), table, 0, 0)
    ELSE IF \E f \in Range(numeric_fields) : ~FloatParses(data[f])
    THEN Outcome(Response(400, "INVALID_NUMERIC_VALUES", NoMsg), table, 0, 0)
    ELSE LET r == save_hotel_data(data, data["snapshot_date"].n, data["arrival_date"].n,
                                  sess, table, fault, proc)
         IN  IF r.raised
             THEN Outcome(Response(500, "INTERNAL_ERROR", r.msg), r.table, r.opened, r.leaked)
             ELSE Outcome(Response(200, "Data saved successfully", NoMsg),
                          r.table, r.opened, r.leaked)

(***************************************************************************)
(* /api/health, /api/data, /api/data/<id>, /api/data/summary.              *)
(***************************************************************************)
\* health_check closes the connection on the success path only (lines 483-484)
health_check_handler(table, fault) ==
    CASE fault = "connect" ->
            Outcome(Response(500, "Database connection failed: {e}", NoMsg), table, 0, 0)
      [] fault = "query" ->
            Outcome(Response(500, "Database connection failed: {e}", NoMsg), table, 1, 1)
      [] fault = "lost" ->
            Outcome(Response(500, "Database connection failed: {e}", NoMsg), table, 1, 0)
      [] OTHER ->
            Outcome(Response(200, "Database connection healthy", NoMsg), table, 1, 0)

\* int(request.args.get(name, default))
ArgIntParses(v) == v.k \in {"missing", "int"}
ArgInt(v, default) == IF v.k = "missing" THEN default ELSE v.n

Min(a, b) == IF a <= b THEN a ELSE b

MaxLimit == 500
DefaultLimit == 50

Upper(t) ==
    CASE t = "asc" -> "ASC"
      [] t = "desc" -> "DESC"
      [] OTHER -> t

\* lines 533, 550-551
SortOrder(args) ==
    LET given == IF args.sort_order.k = "str" THEN Upper(args.sort_order.s) ELSE "DESC"
    IN  IF given \notin {"ASC", "DESC"} THEN "DESC" ELSE given

valid_sort_fields ==
    { "id", "arrival_date", "snapshot_date", "occupancy_percentage", "room_revenue",
      "arr", "rooms_sold", "total_room_inventory", "created_at", "updated_at" }

\* a sort field interpolated as it arrives
SortByUnchecked(args) ==
    IF args.sort_by.k = "str" THEN args.sort_by.s ELSE "arrival_date"

\* lines 532, 560-561
SortBy(args) ==
    LET given == IF args.sort_by.k = "str" THEN args.sort_by.s ELSE "arrival_date"
    IN  IF given \notin valid_sort_fields THEN "arrival_date" ELSE given

\* the value ORDER BY compares; the two timestamps are not modelled and tie
Column(row, sort_by) ==
    CASE sort_by = "id"                   -> row.id
      [] sort_by = "arrival_date"         -> row.arrival_date
      [] sort_by = "snapshot_date"        -> row.snapshot_date
      [] sort_by = "occupancy_percentage" -> row.occupancy_percentage
      [] sort_by = "room_revenue"         -> row.room_revenue
      [] sort_by = "arr"                  -> row.arr
      [] sort_by = "rooms_sold"           -> row.rooms_sold
      [] sort_by = "total_room_inventory" -> row.total_room_inventory
      [] OTHER                            -> 0

\* lines 570-598: the WHERE clause
Where(row, args) ==
    /\ args.start_date.k = "date" => row.arrival_date >= args.start_date.n
    /\ args.end_date.k = "date" => row.arrival_date <= args.end_date.n
    /\ (args.actual_or_forecast.k = "str"
        /\ args.actual_or_forecast.s \in {"actual", "forecast"})
       => row.actual_or_forecast = args.actual_or_forecast.s

Filtered(table, args) == SelectSeq(table, LAMBDA row : Where(row, args))

\* lines 566-596: where_conditions, the fixed texts joined into the WHERE clause
where_conditions(args) ==
    (IF args.start_date.k = "date" THEN <<"arrival_date >= %s">> ELSE <<>>)
    \o (IF args.end_date.k = "date" THEN <<"arrival_date <= %s">> ELSE <<>>)
    \o (IF args.actual_or_forecast.k = "str"
           /\ args.actual_or_forecast.s \in {"actual", "forecast"}
        THEN <<"actual_or_forecast = %s">> ELSE <<>>)

\* lines 566-596 and 623: params, the values handed to cursor.execute
query_params(args, limit, offset) ==
    (IF args.start_date.k = "date" THEN <<args.start_date>> ELSE <<>>)
    \o (IF args.end_date.k = "date" THEN <<args.end_date>> ELSE <<>>)
    \o (IF args.actual_or_forecast.k = "str"
           /\ args.actual_or_forecast.s \in {"actual", "forecast"}
        THEN <<args.actual_or_forecast>> ELSE <<>>)
    \o <<IntArg(limit), IntArg(offset)>>

\* lines 609-621: the text of the main query, piece by piece; sort_by and
\* sort_order are the two pieces the f-string takes from the request
query_text(args) ==
    <<"SELECT ... FROM hotel_data">>
    \o (IF where_conditions(args) = <<>> THEN <<>> ELSE <<" WHERE ">>)
    \o where_conditions(args)
    \o <<"ORDER BY", SortBy(args), SortOrder(args), "LIMIT %s OFFSET %s">>

\* the orders in which ORDER BY sort_by sort_order may return rows: rows that
\* tie on the column come in any order
Orderings(rows, sort_by, sort_order) ==
    LET n == Len(rows)
        perms == {p \in [1..n -> 1..n] : \A i, j \in 1..n : i # j => p[i] # p[j]}
        InOrder(a, b) == IF sort_order = "ASC"
                         THEN Column(a, sort_by) <= Column(b, sort_by)
                         ELSE Column(a, sort_by) >= Column(b, sort_by)
    IN  { [i \in 1..n |-> rows[p[i]]] : p \in
            {q \in perms : \A i \in 1..n, j \in 1..n :
                              i < j => InOrder(rows[q[i]], rows[q[j]])} }

\* LIMIT limit OFFSET offset
Page(ordered, limit, offset) ==
    SubSeq(ordered, offset + 1, Min(offset + limit, Len(ordered)))

\* a truthy query parameter that is no YYYY-MM-DD date
BadDate(v) == v.k \notin {"missing", "blank", "date"}

\* ordered: the rows matching the filters, as ORDER BY returns them
api_get_data_handler(args, table, fault, ordered) ==
    LET page == ArgInt(args.page, 1)
        limit == Min(ArgInt(args.limit, DefaultLimit), MaxLimit)
        total_records == Len(ordered)
        offset == (page - 1) * limit
        total_pages == (total_records + limit - 1) \div limit
        Fail(code, body, opened) == Outcome(Response(code, body, NoMsg), table, opened, 0)
    IN  IF ~ArgIntParses(args.page) \/ ~ArgIntParses(args.limit)
        THEN Fail(500, "FETCH_ERROR", 0)
        ELSE IF page < 1 THEN Fail(400, "INVALID_PAGE", 0)
        ELSE IF limit < 1 THEN Fail(400, "INVALID_LIMIT", 0)
        ELSE IF fault = "connect" THEN Fail(500, "FETCH_ERROR", 0)
        ELSE IF BadDate(args.start_date) \/ BadDate(args.end_date)
        THEN Fail(400, "INVALID_DATE_FORMAT", 1)
        ELSE IF fault # "none" THEN Fail(500, "FETCH_ERROR", 1)
        ELSE Outcome(
                [ Response(200, "success", NoMsg) EXCEPT
                    !.rows = Page(ordered, limit, offset),
                    !.pagination =
                        [ page |-> page, limit |-> limit, total_records |-> total_records,
                          total_pages |-> total_pages, has_next |-> page < total_pages,
                          has_prev |-> page > 1, sort_by |-> SortBy(args),
                          sort_order |-> SortOrder(args) ],
                    !.query = [text |-> query_text(args),
                               params |-> query_params(args, limit, offset)] ],
                table, 1, 0)

api_get_single_record_handler(args, table, fault) ==
    LET found == SelectSeq(table, LAMBDA row : row.id = args.record_id.n)
    IN  IF fault = "connect"
        THEN Outcome(Response(500, "FETCH_ERROR", NoMsg), table, 0, 0)
        ELSE IF fault # "none"
        THEN Outcome(Response(500, "FETCH_ERROR", NoMsg), table, 1, 0)
        ELSE IF found = <<>>
        THEN Outcome(Response(404, "RECORD_NOT_FOUND", NoMsg), table, 1, 0)
        ELSE Outcome([Response(200, "success", NoMsg) EXCEPT !.rows = <<found[1]>>],
                     table, 1, 0)

\* the view hotel_data_summary: per forecast type, the number of entries and the
\* rooms sold of the month (every modelled arrival date lies in 2025-01)
RECURSIVE SumRoomsSold(_)
SumRoomsSold(rows) ==
    IF rows = <<>> THEN 0 ELSE Head(rows).rooms_sold + SumRoomsSold(Tail(rows))

hotel_data_summary(table) ==
    LET Of(aof) == SelectSeq(table, LAMBDA row : row.actual_or_forecast = aof)
        Sold(rows) == SumRoomsSold(rows)
        Line(aof) == [ month_year |-> "2025-01", actual_or_forecast |-> aof,
                       total_rooms_sold |-> Sold(Of(aof)), total_entries |-> Len(Of(aof)) ]
    IN  SelectSeq(<<Line("actual"), Line("forecast")>>, LAMBDA l : l.total_entries > 0)

\* start_month / end_month travel in args.start_date / args.end_date:
\* "date" is a well-formed YYYY-MM, its n the month's first day
api_get_summary_handler(args, table, fault) ==
    IF fault = "connect"
    THEN Outcome(Response(500, "FETCH_ERROR", NoMsg), table, 0, 0)
    ELSE IF BadDate(args.start_date) \/ BadDate(args.end_date)
    THEN Outcome(Response(400, "INVALID_MONTH_FORMAT", NoMsg), table, 1, 0)
    ELSE IF fault # "none"
    THEN Outcome(Response(500, "FETCH_ERROR", NoMsg), table, 1, 0)
    ELSE Outcome([Response(200, "success", NoMsg) EXCEPT
                    !.summary = SelectSeq(hotel_data_summary(table),
                        LAMBDA l : /\ args.start_date.k = "date" => args.start_date.n <= 0
                                   /\ args.end_date.k = "date" => args.end_date.n >= 0
                                   /\ (args.actual_or_forecast.k = "str"
                                       /\ args.actual_or_forecast.s \in {"actual", "forecast"})
                                      => l.actual_or_forecast = args.actual_or_forecast.s)],
                 table, 1, 0)

(***************************************************************************)
(* The web application's actions: one per endpoint.                        *)
(***************************************************************************)
\* the state a request leaves: its history, its response, the table, the connections
Finish(h, is_json, data, fault, proc, args, out) ==
    /\ Len(out.table) <= MaxRows
    /\ openConns + out.leaked <= MaxLeak
    /\ req' = Request(h, is_json, data, fault, proc, args, out.opened)
    /\ resp' = out.resp
    /\ hotel_data' = out.table
    /\ openConns' = openConns + out.leaked
    /\ UNCHANGED <<inflight, featVars, modelVars>>

\* the store's behaviours tried with a well-formed submission
SaveScenarios ==
    { <<f, "valid">> : f \in SaveFaults } \cup { <<"none", p>> : p \in ProcOutcomes }

\* the submissions tried: every body with a healthy store, and the well-formed
\* body of the first triple with every behaviour of the store
Submissions(bodies) ==
    { <<d, "none", "valid">> : d \in bodies }
    \cup { <<BaseForm(10, "actual"), sc[1], sc[2]>> : sc \in SaveScenarios }

submit ==
    /\ \/ /\ ~require_login(session)
          /\ \E d \in Forms :
                Finish("submit", FALSE, d, "none", "valid", NoArgs,
                       Outcome(LoginRequired(FALSE), hotel_data, 0, 0))
       \/ /\ require_login(session)
          /\ \E sub \in Submissions(Forms) :
                Finish("submit", FALSE, sub[1], sub[2], sub[3], NoArgs,
                       submit_handler(sub[1], session, hotel_data, sub[2], sub[3]))
    /\ UNCHANGED <<session, last_login>>

api_submit ==
    /\ \/ /\ ~require_login(session)
          /\ \E d \in JsonBodies, is_json \in BOOLEAN :
                Finish("api_submit", is_json, d, "none", "valid", NoArgs,
                       Outcome(LoginRequired(is_json), hotel_data, 0, 0))
       \/ /\ require_login(session)
          /\ \E sub \in Submissions(JsonBodies) :
                Finish("api_submit", TRUE, sub[1], sub[2], sub[3], NoArgs,
                       api_submit_handler(TRUE, FALSE, sub[1], session, hotel_data,
                                          sub[2], sub[3]))
       \/ /\ require_login(session)
          /\ \E is_json \in BOOLEAN :
                Finish("api_submit", is_json, NoForm, "none", "valid", NoArgs,
                       api_submit_handler(is_json, TRUE, NoForm, session, hotel_data,
                                          "none", "valid"))
    /\ UNCHANGED <<session, last_login>>

health_check ==
    /\ \E fault \in DbFaults :
          Finish("health_check", FALSE, NoForm, fault, "valid", NoArgs,
                 health_check_handler(hotel_data, fault))
    /\ UNCHANGED <<session, last_login>>

\* the query strings tried on /api/data
DataArgs ==
    { NoArgs,
      [NoArgs EXCEPT !.page = IntArg(0)],
      [NoArgs EXCEPT !.page = Str("one")],
      [NoArgs EXCEPT !.limit = IntArg(0)],
      [NoArgs EXCEPT !.limit = IntArg(600)],
      [NoArgs EXCEPT !.page = IntArg(1), !.limit = IntArg(1)],
      [NoArgs EXCEPT !.page = IntArg(2), !.limit = IntArg(1)],
      [NoArgs EXCEPT !.start_date = Str("20/01/2025")],
      [NoArgs EXCEPT !.start_date = Date(21)],
      [NoArgs EXCEPT !.end_date = Date(20), !.actual_or_forecast = Str("actual")],
      [NoArgs EXCEPT !.sort_by = Str("rooms_sold"), !.sort_order = Str("asc")],
      [NoArgs EXCEPT !.sort_by = Str("password"), !.sort_order = Str("sideways")] }

\* a request to a read endpoint: its query string and what the database does
ReadScenarios(argsets) ==
    { <<a, "none">> : a \in argsets } \cup { <<NoArgs, f>> : f \in DbFaults }

api_get_data ==
    /\ \/ /\ ~require_login(session)
          /\ \E is_json \in BOOLEAN :
                Finish("api_get_data", is_json, NoForm, "none", "valid", NoArgs,
                       Outcome(LoginRequired(is_json), hotel_data, 0, 0))
       \/ /\ require_login(session)
          /\ \E sc \in ReadScenarios(DataArgs) :
             \E ordered \in Orderings(Filtered(hotel_data, sc[1]),
                                      SortBy(sc[1]), SortOrder(sc[1])) :
                Finish("api_get_data", FALSE, NoForm, sc[2], "valid", sc[1],
                       api_get_data_handler(sc[1], hotel_data, sc[2], ordered))
    /\ UNCHANGED <<session, last_login>>

RecordArgs == { [NoArgs EXCEPT !.record_id = IntArg(i)] : i \in {1, MaxRows + 1} }

api_get_single_record ==
    /\ \/ /\ ~require_login(session)
          /\ \E a \in RecordArgs :
                Finish("api_get_single_record", FALSE, NoForm, "none", "valid", a,
                       Outcome(LoginRequired(FALSE), hotel_data, 0, 0))
       \/ /\ require_login(session)
          /\ \E a \in RecordArgs, fault \in DbFaults :
                Finish("api_get_single_record", FALSE, NoForm, fault, "valid", a,
                       api_get_single_record_handler(a, hotel_data, fault))
    /\ UNCHANGED <<session, last_login>>

SummaryArgs ==
    { NoArgs,
      [NoArgs EXCEPT !.start_date = Str("January")],
      [NoArgs EXCEPT !.start_date = Date(0), !.actual_or_forecast = Str("forecast")] }

api_get_summary ==
    /\ \/ /\ ~require_login(session)
          /\ Finish("api_get_summary", FALSE, NoForm, "none", "valid", NoArgs,
                    Outcome(LoginRequired(FALSE), hotel_data, 0, 0))
       \/ /\ require_login(session)
          /\ \E sc \in ReadScenarios(SummaryArgs) :
                Finish("api_get_summary", FALSE, NoForm, sc[2], "valid", sc[1],
                       api_get_summary_handler(sc[1], hotel_data, sc[2]))
    /\ UNCHANGED <<session, last_login>>

(***************************************************************************)
(* /login, /api/login, /logout, /api/logout.                               *)
(***************************************************************************)
\* the credentials tried, healthy database; and alice's with each database fault
Credentials ==
    { <<u, pw, "none">> : u \in {"", "alice", "bob"}, pw \in {"", "pw1", "pw2"} }
    \cup { <<"alice", "pw1", f>> : f \in DbFaults }

LoginArgs(c) == [NoArgs EXCEPT !.username = Str(c[1]), !.password = Str(c[2])]

\* lines 129-131 / 165-167
LoggedIn(sess, user) ==
    [sess EXCEPT !.user = user.username, !.user_role = user.role,
                 !.user_full_name = user.full_name]

\* connections verify_user opens: none when the credentials are rejected before it
VerifyOpens(c) == IF c[1] = "" \/ c[2] = "" \/ c[3] = "connect" THEN 0 ELSE 1

login ==
    \E c \in Credentials :
       LET user == verify_user(c[1], c[2], c[3])
           ok == c[1] # "" /\ c[2] # "" /\ user # NoUser
       IN  /\ Finish("login", FALSE, NoForm, c[3], "valid", LoginArgs(c),
                     Outcome(IF c[1] = "" \/ c[2] = ""
                             THEN Response(200, "login.html: Username and password are required", NoMsg)
                             ELSE IF ok THEN Response(302, "redirect: form", NoMsg)
                             ELSE Response(200, "login.html: Invalid username or password", NoMsg),
                             hotel_data, VerifyOpens(c), 0))
           /\ session' = IF ok THEN LoggedIn(session, user) ELSE session
           /\ last_login' = IF ok THEN [last_login EXCEPT ![user.username] = TRUE]
                            ELSE last_login

api_login ==
    \E c \in Credentials, is_json \in BOOLEAN :
       LET user == verify_user(c[1], c[2], c[3])
           ok == is_json /\ c[1] # "" /\ c[2] # "" /\ user # NoUser
       IN  /\ Finish("api_login", is_json, NoForm, c[3], "valid", LoginArgs(c),
                     Outcome(IF ~is_json THEN Response(400, "INVALID_CONTENT_TYPE", NoMsg)
                             ELSE IF c[1] = "" \/ c[2] = ""
                             THEN Response(400, "MISSING_CREDENTIALS", NoMsg)
                             ELSE IF ok THEN Response(200, "Login successful", NoMsg)
                             ELSE Response(401, "INVALID_CREDENTIALS", NoMsg),
                             hotel_data, IF is_json THEN VerifyOpens(c) ELSE 0, 0))
           /\ session' = IF ok THEN LoggedIn(session, user) ELSE session
           /\ last_login' = IF ok THEN [last_login EXCEPT ![user.username] = TRUE]
                            ELSE last_login

logout ==
    /\ Finish("logout", FALSE, NoForm, "none", "valid", NoArgs,
              Outcome(Response(302, "redirect: login", NoMsg), hotel_data, 0, 0))
    /\ session' = [session EXCEPT !.user = Absent]
    /\ UNCHANGED last_login

api_logout ==
    /\ Finish("api_logout", FALSE, NoForm, "none", "valid", NoArgs,
              Outcome(Response(200, "Logout successful", NoMsg), hotel_data, 0, 0))
    /\ session' = [session EXCEPT !.user = Absent]
    /\ UNCHANGED last_login

(***************************************************************************)
(* The forecast feature pipeline (prophet_python.py).                      *)
(*                                                                         *)
(* A table is [index, cols]: index the row labels (dates, as day ordinals  *)
(* of 2025), cols a function from column name to the column's cells, one   *)
(* per row.  A cell is a number or missing (pandas NaN).                   *)
(*                                                                         *)
(* A rolling mean is kept as the sum of its window (window times the       *)
(* mean), a rolling standard deviation as window * sum(x^2) - sum(x)^2     *)
(* (window * (window - 1) times the variance), so that both stay integers. *)
(***************************************************************************)
MaxLen == 15

Val(v) == [nan |-> FALSE, v |-> v]
NA == [nan |-> TRUE, v |-> 0]

NoFrame == [index |-> <<>>, cols |-> <<>>]

\* what the pipeline did last, and the exception it ended with ("" for none)
Did(op, error) == [op |-> op, error |-> error]

\* Timestamp.dayofweek, Monday = 0: 2025-01-01 is a Wednesday
dayofweek(d) == (d + 2) % 7

\* ordinal of the first day of each month of 2025 and of January to March 2026
MonthStarts == <<0, 31, 59, 90, 120, 151, 181, 212, 243, 273, 304, 334,
                 365, 396, 424>>

month(d) ==
    ((Cardinality({m \in DOMAIN MonthStarts : MonthStarts[m] <= d}) - 1) % 12) + 1

quarter(d) == (month(d) - 1) \div 3 + 1

\* holidays.US() in 2025: New Year's Day, Martin Luther King Jr. Day, Washington's
\* Birthday, Memorial Day, Juneteenth, Independence Day, Labor Day, Columbus Day,
\* Veterans Day, Thanksgiving, Christmas Day; and in the first quarter of 2026:
\* New Year's Day, Martin Luther King Jr. Day, Washington's Birthday
US_holidays == {0, 19, 47, 145, 169, 184, 243, 285, 314, 330, 358, 365, 383, 411}

\* holidays.IN() in 2025, its fixed-date holidays: Republic Day, Independence
\* Day, Gandhi Jayanti, Christmas; no date asked of predict_for_dates below
\* falls on one of its movable holidays; and Republic Day 2026
IN_holidays == {25, 226, 274, 358, 390}

DayCols == {"day_0", "day_1", "day_2", "day_3", "day_4", "day_5", "day_6"}

\* f'day_{i}'
day_col(i) ==
    CASE i = 0 -> "day_0" [] i = 1 -> "day_1" [] i = 2 -> "day_2" [] i = 3 -> "day_3"
      [] i = 4 -> "day_4" [] i = 5 -> "day_5" [] i = 6 -> "day_6"

\* int(col.split('_')[1])
day_num(col) == CHOOSE i \in 0..6 : day_col(i) = col

\* an indicator of the day after the one asked for
day_indicator_shifted(d, i) == Val(IF dayofweek(d) = (i + 1) % 7 THEN 1 ELSE 0)

\* (ds.dt.dayofweek == i).astype(int)
day_indicator(d, i) == Val(IF dayofweek(d) = i THEN 1 ELSE 0)

\* a weekend of Sunday and Monday
is_weekend_sunday_monday(d) == Val(IF dayofweek(d) \in {6, 0} THEN 1 ELSE 0)

\* ds.dt.dayofweek.isin([5, 6]).astype(int)
is_weekend(d) == Val(IF dayofweek(d) \in {5, 6} THEN 1 ELSE 0)

\* (ds.dt.date.apply(lambda x: x in calendar)).astype(int)
is_holiday(d, calendar) == Val(IF d \in calendar THEN 1 ELSE 0)

\* pd.isna(column).all()
AllNA(col) == \A i \in DOMAIN col : col[i].nan

\* a window that lets go of its oldest value one row late
RECURSIVE rolling_late(_, _, _)
rolling_late(y, window, i) ==
    IF i = 0 THEN [nobs |-> 0, s |-> 0, q |-> 0]
    ELSE LET p == rolling_late(y, window, i - 1)
             a == IF y[i].nan THEN p
                  ELSE [nobs |-> p.nobs + 1, s |-> p.s + y[i].v, q |-> p.q + y[i].v * y[i].v]
         IN  IF i > window + 1 /\ ~y[i - window - 1].nan
             THEN [nobs |-> a.nobs - 1, s |-> a.s - y[i - window - 1].v,
                   q |-> a.q - y[i - window - 1].v * y[i - window - 1].v]
             ELSE a

\* Series.rolling(window): the window after row i, kept as pandas keeps it while
\* it slides: the number nobs of values present, their sum s and sum of squares
\* q; row i enters, row i - window leaves
RECURSIVE rolling(_, _, _)
rolling(y, window, i) ==
    IF i = 0 THEN [nobs |-> 0, s |-> 0, q |-> 0]
    ELSE LET p == rolling(y, window, i - 1)
             a == IF y[i].nan THEN p
                  ELSE [nobs |-> p.nobs + 1, s |-> p.s + y[i].v, q |-> p.q + y[i].v * y[i].v]
         IN  IF i > window /\ ~y[i - window].nan
             THEN [nobs |-> a.nobs - 1, s |-> a.s - y[i - window].v,
                   q |-> a.q - y[i - window].v * y[i - window].v]
             ELSE a

\* .rolling(window).mean(): missing until the window holds window values
rolling_mean(y, window) ==
    [i \in 1..Len(y) |->
        LET r == rolling(y, window, i)
        IN  IF r.nobs >= window THEN Val(r.s) ELSE NA]

\* .rolling(window).std()
rolling_std(y, window) ==
    [i \in 1..Len(y) |->
        LET r == rolling(y, window, i)
        IN  IF r.nobs >= window THEN Val(window * r.q - r.s * r.s) ELSE NA]

windows == {7, 14}

RollingCols ==
    {"rolling_mean_7d", "rolling_std_7d", "rolling_mean_14d", "rolling_std_14d"}

\* f'rolling_mean_{window}d', f'rolling_std_{window}d'
rolling_col(stat, window) ==
    CASE stat = "mean" /\ window = 7  -> "rolling_mean_7d"
      [] stat = "std"  /\ window = 7  -> "rolling_std_7d"
      [] stat = "mean" /\ window = 14 -> "rolling_mean_14d"
      [] stat = "std"  /\ window = 14 -> "rolling_std_14d"

\* the first value present at row i or below it; missing when there is none
RECURSIVE NextValid(_, _)
NextValid(col, i) ==
    IF i > Len(col) THEN NA
    ELSE IF ~col[i].nan THEN col[i]
    ELSE NextValid(col, i + 1)

\* fillna(method='bfill') on one column
bfill(col) == [i \in 1..Len(col) |-> NextValid(col, i)]

CalendarCols == {"is_weekend", "month", "quarter", "is_holiday"}

\* prepare_prophet_data(df, target_col, exogenous_cols); target_col is a column of d
prepare_prophet_data(d, target_col, exogenous_cols) ==
    LET n == Len(d.index)
        exog == {c \in exogenous_cols : c \in DOMAIN d.cols}
        rolled == IF AllNA(d.cols[target_col]) THEN {} ELSE RollingCols
        names == {"ds", "y"} \cup exog \cup DayCols \cup CalendarCols \cup rolled
        Column_(c) ==
            CASE c = "ds" -> [i \in 1..n |-> Val(d.index[i])]
              [] c = "y" -> d.cols[target_col]
              [] c \in DayCols -> [i \in 1..n |-> day_indicator(d.index[i], day_num(c))]
              [] c = "is_weekend" -> [i \in 1..n |-> is_weekend(d.index[i])]
              [] c = "month" -> [i \in 1..n |-> Val(month(d.index[i]))]
              [] c = "quarter" -> [i \in 1..n |-> Val(quarter(d.index[i]))]
              [] c = "is_holiday" -> [i \in 1..n |-> is_holiday(d.index[i], US_holidays)]
              [] c = rolling_col("mean", 7) -> rolling_mean(d.cols[target_col], 7)
              [] c = rolling_col("std", 7) -> rolling_std(d.cols[target_col], 7)
              [] c = rolling_col("mean", 14) -> rolling_mean(d.cols[target_col], 14)
              [] c = rolling_col("std", 14) -> rolling_std(d.cols[target_col], 14)
              [] OTHER -> d.cols[c]
    IN  [index |-> d.index, cols |-> [c \in names |-> bfill(Column_(c))]]

\* a prophet_df whose y shares its values with the input table's column
input_after_prepare_shared(d, target_col) ==
    [d EXCEPT !.cols[target_col] = bfill(@)]

\* the input table after prepare_prophet_data: pd.DataFrame({...}) (line 15)
\* copies the column it is given and every later statement assigns to or
\* fills prophet_df (lines 21-44), so the input keeps its rows and values
input_after_prepare(d, target_col) == d

\* every requested column is read without a guard
unguarded_columns_all(target_col, exogenous_cols) == {target_col} \cup exogenous_cols

\* the columns prepare_prophet_data reads as df[col] whether or not the table
\* has them (line 15); an exogenous column is read only if col in df.columns
\* (line 20)
unguarded_columns(target_col, exogenous_cols) == {target_col}

\* the value of the first row
iloc_first(col) == col[1]

\* column.iloc[-1]
iloc_last(col) == col[Len(col)]

\* pd.DataFrame({'ds': dates})
DatesFrame(dates) ==
    [index |-> [i \in 1..Len(dates) |-> i - 1],
     cols |-> [c \in {"ds"} |-> [i \in 1..Len(dates) |-> Val(dates[i])]]]

\* predict_for_dates: the table future_dates handed to model.predict
predict_for_dates(dates, reference_df) ==
    LET n == Len(dates)
        names == {"ds"} \cup (DOMAIN reference_df.cols \ {"ds", "y"})
    IN  [index |-> DatesFrame(dates).index,
         cols |-> [c \in names |->
            CASE c = "ds" -> DatesFrame(dates).cols["ds"]
              [] c \in DayCols -> [i \in 1..n |-> day_indicator(dates[i], day_num(c))]
              [] c = "is_weekend" -> [i \in 1..n |-> is_weekend(dates[i])]
              [] c = "month" -> [i \in 1..n |-> Val(month(dates[i]))]
              [] c = "quarter" -> [i \in 1..n |-> Val(quarter(dates[i]))]
              [] c = "is_holiday" -> [i \in 1..n |-> is_holiday(dates[i], IN_holidays)]
              [] OTHER -> [i \in 1..n |-> iloc_last(reference_df.cols[c])]]]

\* add_regressors(future_df, reference_df): future_df with the columns added
add_regressors(future_df, reference_df) ==
    LET n == Len(future_df.index)
        ds == [i \in 1..n |-> future_df.cols["ds"][i].v]
        names == DOMAIN future_df.cols \cup (DOMAIN reference_df.cols \ {"ds", "y"})
    IN  [index |-> future_df.index,
         cols |-> [c \in names |->
            CASE c \in {"ds", "y"} -> future_df.cols[c]
              [] c \in DayCols -> [i \in 1..n |-> day_indicator(ds[i], day_num(c))]
              [] c = "is_weekend" -> [i \in 1..n |-> is_weekend(ds[i])]
              [] c = "month" -> [i \in 1..n |-> Val(month(ds[i]))]
              [] c = "quarter" -> [i \in 1..n |-> Val(quarter(ds[i]))]
              [] c = "is_holiday" -> [i \in 1..n |-> is_holiday(ds[i], US_holidays)]
              [] c \in DOMAIN reference_df.cols ->
                    [i \in 1..n |-> iloc_last(reference_df.cols[c])]
              [] OTHER -> future_df.cols[c]]]

\* model.make_future_dataframe(periods): the dates of the fitted table, then the
\* periods days after the last of them
make_future_dataframe(reference_df, periods) ==
    LET history == reference_df.cols["ds"]
        last == CHOOSE d \in {history[i].v : i \in DOMAIN history} :
                    \A i \in DOMAIN history : history[i].v <= d
    IN  DatesFrame([i \in 1..(Len(history) + periods) |->
                      IF i <= Len(history) THEN history[i].v
                      ELSE last + (i - Len(history))])

(***************************************************************************)
(* Trained models and their files (prophet_python.py).                     *)
(*                                                                         *)
(* A model is [fitted, params, history]: the hyperparameters it was built  *)
(* with and the feature table it was fitted on, which together determine   *)
(* its coefficients.  A hyperparameter value x is [exps, of]: exp applied  *)
(* exps times to of/100, so that np.exp(x) is exact and never equals x.    *)
(* A file is [exists, bytes], bytes the stream of pickled values.          *)
(***************************************************************************)
Real(hundredths) == [exps |-> 0, of |-> hundredths]

np_exp(x) == [x EXCEPT !.exps = @ + 1]

Params(cps, sps, hps, mode) ==
    [changepoint_prior_scale |-> cps, seasonality_prior_scale |-> sps,
     holidays_prior_scale |-> hps, seasonality_mode |-> mode]

\* Prophet(**params), not fitted
Prophet(params) == [fitted |-> FALSE, params |-> params, history |-> NoFrame]

NoModel == Prophet(Params(Real(0), Real(0), Real(0), ""))

\* the hyperparameters retrain_model_with_new_data fixes
RetrainParams == Params(Real(5), Real(1000), Real(1000), "multiplicative")

\* what the optimiser does with a table it accepts
FitOutcomes == {"", "RuntimeError"}

\* model.fit(data) refuses a table with fewer than two rows that have y, or with
\* a missing value in a regressor column
FitError(data) ==
    LET y == data.cols["y"]
    IN  IF \/ Cardinality({i \in DOMAIN y : ~y[i].nan}) < 2
           \/ \E c \in DOMAIN data.cols \ {"ds", "y"} :
                 \E i \in DOMAIN data.cols[c] : data.cols[c][i].nan
        THEN "ValueError" ELSE ""

\* model.fit(data): the model fitted, or the exception raised
fit(m, data, optimiser) ==
    LET error == IF FitError(data) # "" THEN FitError(data) ELSE optimiser
    IN  [raised |-> error,
         model |-> IF error = "" THEN [m EXCEPT !.fitted = TRUE, !.history = data]
                   ELSE m]

\* pickle.dumps(model): the class, then the attribute values
pickle_dumps(m) == <<"Prophet", m.fitted, m.params, m.history>>

\* pickle.loads of a complete stream
pickle_loads(bytes) == [fitted |-> bytes[2], params |-> bytes[3], history |-> bytes[4]]

Unpicklable(bytes) == Len(bytes) < 4 \/ bytes[1] # "Prophet"

Paths == {"final_model.pkl", "updated_model.pkl"}

NoFile == [exists |-> FALSE, bytes |-> <<>>]

\* what a write does: the whole stream reaches the disk, or the write fails
\* (disk full, unpicklable attribute) when only its first value has
WriteOutcomes == {"whole", "part"}

\* save_model(model, filepath): open(filepath, 'wb') empties the file, and
\* pickle.dump writes the stream into it
save_model(m, filepath, fs, written) ==
    LET bytes == pickle_dumps(m)
        on_disk == IF written = "whole" THEN bytes ELSE SubSeq(bytes, 1, 1)
    IN  [raised |-> IF written = "whole" THEN "" ELSE "OSError",
         files |-> [fs EXCEPT ![filepath] = [exists |-> TRUE, bytes |-> on_disk]]]

\* load_model that opens the file without looking for it first
load_model_unchecked(filepath, fs) ==
    IF Unpicklable(fs[filepath].bytes)
    THEN [raised |-> "EOFError", model |-> NoModel]
    ELSE [raised |-> "", model |-> pickle_loads(fs[filepath].bytes)]

\* load_model(filepath)
load_model(filepath, fs) ==
    IF ~fs[filepath].exists
    THEN [raised |-> "FileNotFoundError", model |-> NoModel]
    ELSE IF Unpicklable(fs[filepath].bytes)
    THEN [raised |-> "EOFError", model |-> NoModel]
    ELSE [raised |-> "", model |-> pickle_loads(fs[filepath].bytes)]

\* the simulations model.predict can draw for its intervals (numpy's global
\* random state, which the code never seeds)
Draws == {1, 2}

NoForecast == [made |-> FALSE, ds |-> <<>>, yhat |-> <<>>,
               yhat_lower |-> <<>>, yhat_upper |-> <<>>]

\* forecast[['ds', 'yhat', 'yhat_lower', 'yhat_upper']] of model.predict(future):
\* yhat is computed from the coefficients and the future table, the bounds are
\* percentiles of simulated values
predict(m, future_df, draw) ==
    [made |-> TRUE,
     ds |-> future_df.cols["ds"],
     yhat |-> <<m.params, m.history, future_df>>,
     yhat_lower |-> <<"lower", m.params, m.history, future_df, draw>>,
     yhat_upper |-> <<"upper", m.params, m.history, future_df, draw>>]

(***************************************************************************)
(* The web application: a fresh session, an empty table.                   *)
(***************************************************************************)
NoSession == [user |-> Absent, user_role |-> Absent, user_full_name |-> Absent]

NoCalls == <<>>

InitWeb ==
    /\ session = NoSession
    /\ last_login = [u \in Usernames |-> FALSE]
    /\ hotel_data = <<>>
    /\ openConns = 0
    /\ req = NoRequest
    /\ resp = NoResponse
    /\ inflight = NoCalls

(***************************************************************************)
(* Text reports (web_old/server/model/prophet_python.py).  Forecast values *)
(* are floats counted in sixteenths, which binary floating point holds     *)
(* exactly; a number of the report is counted in hundredths.               *)
(***************************************************************************)
TextPaths == {"predictions.txt", "forecast_30days.txt"}

NoText == <<>>

\* text: the lines of each report on disk; returned: the value the last call returned
NoOutput == [text |-> [p \in TextPaths |-> NoText], returned |-> Absent]

\* one line of a report: a label and the formatted value behind it
Line(label, k, a, b, c) == [label |-> label, k |-> k, a |-> a, b |-> b, c |-> c]

\* the first m for which MonthStarts[m] <= d < MonthStarts[m + 1]
month_index(d) == Cardinality({m \in DOMAIN MonthStarts : MonthStarts[m] <= d})

\* row['ds'].strftime('%Y-%m-%d'): year, month and day of the month
strftime(d) ==
    [Y |-> 2025 + (month_index(d) - 1) \div 12,
     m |-> month(d),
     d |-> d - MonthStarts[month_index(d)] + 1]

\* a format that cuts the digits after the second decimal off
format_2f_cut(x) ==
    LET a == IF x < 0 THEN -x ELSE x
    IN  [neg |-> x < 0, int |-> ((100 * a) \div 16) \div 100,
         frac |-> ((100 * a) \div 16) % 100]

\* f"{x:.2f}" of the float x / 16: sign, integer digits and two decimals of
\* the nearest hundredth, a tie going to the even one
format_2f(x) ==
    LET a == IF x < 0 THEN -x ELSE x
        q == (100 * a) \div 16
        r == (100 * a) % 16
        h == IF r > 8 \/ (r = 8 /\ q % 2 = 1) THEN q + 1 ELSE q
    IN  [neg |-> x < 0, int |-> h \div 100, frac |-> h % 100]

\* lines 357-358
header ==
    << Line("Prophet Model Forecast Results", "text", 0, 0, 0),
       Line("==============================", "text", 0, 0, 0),
       Line("", "text", 0, 0, 0) >>

NumLine(label, x) ==
    Line(label, "num", IF format_2f(x).neg THEN 1 ELSE 0, format_2f(x).int, format_2f(x).frac)

\* lines 361-370: the five lines written for row i of predictions_df
block(predictions_df, i) ==
    << Line("Date: ", "date", strftime(predictions_df.ds[i].v).Y,
            strftime(predictions_df.ds[i].v).m, strftime(predictions_df.ds[i].v).d),
       NumLine("Forecast: ", predictions_df.yhat[i]),
       NumLine("Lower Bound (95%): ", predictions_df.yhat_lower[i]),
       NumLine("Upper Bound (95%): ", predictions_df.yhat_upper[i]),
       Line("------------------------------", "text", 0, 0, 0) >>

\* for i, row in predictions_df.iterrows(): the blocks of rows i, i + 1, ...
RECURSIVE iterrows(_, _)
iterrows(predictions_df, i) ==
    IF i > Len(predictions_df.ds) THEN <<>>
    ELSE block(predictions_df, i) \o iterrows(predictions_df, i + 1)

OpenOutcomes == {"", "FileNotFoundError"}

\* save_predictions_to_text(predictions_df, filepath): [raised, output];
\* opened is what open(filepath, 'w') does (it fails when the directory of the
\* path does not exist)
save_predictions_to_text_result(predictions_df, filepath, out, opened) ==
    IF opened # ""
    THEN [raised |-> opened, output |-> out]
    ELSE [raised |-> "",
          output |-> [text |-> [out.text EXCEPT
                                   ![filepath] = header \o iterrows(predictions_df, 1)],
                      returned |-> filepath]]

\* the rows of a table in the order of their dates (Prophet.setup_dataframe:
\* df.sort_values('ds')); rows of one date are alike in every column
\* predict_for_dates builds, so their order among themselves does not show
RECURSIVE sort_values(_, _)
sort_values(ds, left) ==
    IF left = {} THEN <<>>
    ELSE LET i == CHOOSE j \in left :
                    \A k \in left : ds[j].v < ds[k].v \/ (ds[j].v = ds[k].v /\ j <= k)
         IN  <<i>> \o sort_values(ds, left \ {i})

\* a predictions table: ds, and values[i] = <<yhat_lower, yhat, yhat_upper>> of row i
Predictions(ds, values) ==
    [made |-> TRUE,
     ds |-> ds,
     yhat |-> [i \in DOMAIN ds |-> values[i][2]],
     yhat_lower |-> [i \in DOMAIN ds |-> values[i][1]],
     yhat_upper |-> [i \in DOMAIN ds |-> values[i][3]]]

\* model.predict(future)[['ds', 'yhat', 'yhat_lower', 'yhat_upper']] as numbers:
\* the rows of future by date, values[i] the three numbers of the i-th of them
predicted(future_df, values) ==
    LET order == sort_values(future_df.cols["ds"], DOMAIN future_df.cols["ds"])
    IN  Predictions([i \in DOMAIN order |-> future_df.cols["ds"][order[i]]], values)

(***************************************************************************)
(* Data entry (web_old/server/model/prophet_python.py).                    *)
(***************************************************************************)
\* new_row: pd.DataFrame(index=[date]) with 'Room Revenue' and then every
\* exogenous value set; exogenous_values is a function from column names to
\* values, empty for None
new_row(date, room_revenue, exogenous_values) ==
    [index |-> <<date>>,
     cols |-> [c \in {"Room Revenue"} \cup DOMAIN exogenous_values |->
                 IF c \in DOMAIN exogenous_values THEN <<exogenous_values[c]>>
                 ELSE <<room_revenue>>]]

\* pd.concat([a, b]): the rows of a, then those of b, under the union of the
\* columns; a cell of a column the table does not have is missing
concat(a, b) ==
    LET cells(T, c) == IF c \in DOMAIN T.cols THEN T.cols[c]
                       ELSE [i \in 1..Len(T.index) |-> NA]
    IN  [index |-> a.index \o b.index,
         cols |-> [c \in DOMAIN a.cols \cup DOMAIN b.cols |-> cells(a, c) \o cells(b, c)]]

\* the rows of T in the order order[1], order[2], ...
take(T, order) ==
    [index |-> [i \in 1..Len(T.index) |-> T.index[order[i]]],
     cols |-> [c \in DOMAIN T.cols |-> [i \in 1..Len(T.index) |-> T.cols[c][order[i]]]]]

is_monotonic_increasing(index) ==
    \A i \in 1..(Len(index) - 1) : index[i] <= index[i + 1]

\* the orders that put the positions left by increasing index: a position of
\* the least index first, then the others in such an order
RECURSIVE argsort(_, _)
argsort(index, left) ==
    IF left = {} THEN {<<>>}
    ELSE LET firsts == {i \in left : \A j \in left : index[i] <= index[j]}
         IN  UNION { { <<i>> \o rest : rest \in argsort(index, left \ {i}) } : i \in firsts }

\* a sort_index that leaves the rows where they are
sort_index_skipped(T) == {T}

\* T.sort_index(): T itself when its index is already in order; otherwise the
\* rows sorted by index with quicksort, which may leave rows of equal index in
\* any order
sort_index(T) ==
    IF is_monotonic_increasing(T.index) THEN {T}
    ELSE { take(T, order) : order \in argsort(T.index, DOMAIN T.index) }

\* add_new_data_row(df, date, room_revenue, exogenous_values): the tables it
\* can return
add_new_data_row_result(d, date, room_revenue, exogenous_values) ==
    sort_index(concat(d, new_row(date, room_revenue, exogenous_values)))

\* cross_validation(model, initial='366 days', period='30 days', horizon='30 days')
initial == 366
horizon == 30

\* cross_validation refuses a history that does not reach over initial and horizon
CvError(data) ==
    LET ds == {data.cols["ds"][i].v : i \in DOMAIN data.cols["ds"]}
    IN  IF \E a, b \in ds : b - a >= initial + horizon THEN "" ELSE "ValueError"

\* the values hp.loguniform draws, exp of a uniform draw between its bounds
\* (here -3.00 and -0.50, -2.00 and 1.00, -2.00 and 0.00), and the index
\* hp.choice draws; these are what Trials records and fmin returns
Drawn ==
    { Params(np_exp(Real(-300)), np_exp(Real(-200)), np_exp(Real(-200)), 0),
      Params(np_exp(Real(-50)), np_exp(Real(100)), np_exp(Real(0)), 1),
      Params(np_exp(Real(-300)), np_exp(Real(100)), np_exp(Real(-200)), 1) }

seasonality_modes == <<"additive", "multiplicative">>

\* the params the objective is called with: hp.choice hands it the option drawn
space_eval(vals) ==
    [vals EXCEPT !.seasonality_mode = seasonality_modes[@ + 1]]

\* the rmse values a trial can end with
Losses == {1, 2}

\* objective(params): fit, cross-validate, and return the mean rmse; an exception
\* of fit or of cross_validation leaves the function
objective(params, data, optimiser, rmse) ==
    LET fitted == fit(Prophet(params), data, optimiser)
        error == IF fitted.raised # "" THEN fitted.raised ELSE CvError(data)
    IN  [raised |-> error, loss |-> rmse, status |-> "ok"]

\* trials.argmin: the values drawn by the first trial of the lowest loss
argmin(ts) ==
    LET i == CHOOSE i \in DOMAIN ts :
                /\ \A j \in DOMAIN ts : ts[i].loss <= ts[j].loss
                /\ \A j \in 1..(i - 1) : ts[j].loss > ts[i].loss
    IN  ts[i].vals

\* best_params of the script
best_params(best) ==
    Params(np_exp(best.changepoint_prior_scale),
           np_exp(best.seasonality_prior_scale),
           np_exp(best.holidays_prior_scale),
           seasonality_modes[best.seasonality_mode + 1])

\* no model is trained, no model file and no report is written
InitModelIdle ==
    /\ files = [p \in Paths |-> NoFile]
    /\ model = NoModel
    /\ forecast = NoForecast
    /\ trials = <<>>
    /\ output = NoOutput

\* the pipeline is not run
InitFeatIdle ==
    /\ df = NoFrame
    /\ prophet_data = NoFrame
    /\ future = NoFrame
    /\ pipe = Did("idle", "")


Init ==
    /\ InitWeb
    /\ InitFeatIdle
    /\ InitModelIdle

Next ==
    \/ login
    \/ api_login
    \/ logout
    \/ api_logout
    \/ submit
    \/ api_submit
    \/ health_check
    \/ api_get_data
    \/ api_get_single_record
    \/ api_get_summary

Spec == Init /\ [][Next]_vars

(***************************************************************************)
(* The forecast pipeline as a state machine: an observation table is       *)
(* loaded, the feature table is prepared from it, and future tables are    *)
(* built for requested dates and for forecast horizons.                    *)
(***************************************************************************)
target_col == "Room Revenue"

\* exog_cols of the script
exog_cols == {"Rooms Sold", "Occupancy %", "ARR", "Pax"}

\* first dates of the tables loaded: 2025-01-01 and 2025-06-26
StartDates == {0, 176}

\* the target series tried: rising evenly, and irregular
Kinds == {"linear", "uneven"}

TargetValue(kind, i) ==
    IF kind = "linear" THEN 1000 + 25 * i
    ELSE 1000 + 10 * ((7 * i * i) % 13) + i

\* an observation table of n daily rows from start, sorted by date, one row per
\* date; gaps are the rows whose target is missing, exog_gaps those whose
\* exogenous values are missing
Table(start, n, kind, gaps, columns, exog_gaps) ==
    [index |-> [i \in 1..n |-> start + i - 1],
     cols |-> [c \in columns |->
        [i \in 1..n |->
            CASE c = target_col -> IF i \in gaps THEN NA ELSE Val(TargetValue(kind, i))
              [] c = "Rooms Sold" -> IF i \in exog_gaps THEN NA ELSE Val(50 + (i % 5))
              [] OTHER -> IF i \in exog_gaps THEN NA ELSE Val(80 + 2 * i)]]]

AllColumns == {target_col, "Rooms Sold", "Pax"}

ColumnSets == {{target_col}, {"Rooms Sold", "Pax"}, {target_col, "ARR"}}

\* the tables loaded: complete ones of every length, full-length ones with
\* missing values, and full-length ones with other columns
Tables ==
    { Table(s, n, k, {}, AllColumns, {}) : s \in StartDates, n \in 1..MaxLen, k \in Kinds }
    \cup { Table(s, MaxLen, "uneven", g, AllColumns, eg) :
             s \in StartDates,
             g \in {{1}, {3, 4}, {MaxLen}, 1..MaxLen},
             eg \in {{}, {1, 2}, {MaxLen}} }
    \cup { Table(0, MaxLen, "linear", {}, cs, {}) : cs \in ColumnSets }

\* the dates asked of predict_for_dates: the script's three (2025-06-20, 07-01,
\* 09-15); 4 July; 15 August and 25 December; Saturday 21 and Sunday 22 June; none
DateLists == { <<170, 181, 257>>, <<184>>, <<226, 358>>, <<171, 172>>, <<>> }

\* the horizons asked of make_future_dataframe (the script asks 30, 90 and 365)
Periods == {1, 9}

FeatInit ==
    /\ InitWeb
    /\ InitModelIdle
    /\ df \in Tables
    /\ prophet_data = NoFrame
    /\ future = NoFrame
    /\ pipe = Did("load", "")

\* retrain_model_with_new_data(df, exog_cols, model_path): prepare_prophet_data
\* (df[target_col] raises KeyError without the column), Prophet(...), fit, and
\* save_model when a path is given; an exception at any step ends the call
retrain_model_with_new_data ==
    /\ IF unguarded_columns(target_col, exog_cols) \ DOMAIN df.cols # {}
       THEN /\ pipe' = Did("prepare_prophet_data", "KeyError")
            /\ UNCHANGED <<df, prophet_data, model, files>>
       ELSE /\ prophet_data' = prepare_prophet_data(df, target_col, exog_cols)
            /\ df' = input_after_prepare(df, target_col)
            /\ \E model_path \in Paths \cup {Absent}, optimiser \in FitOutcomes,
                  written \in WriteOutcomes :
                  LET fitted == fit(Prophet(RetrainParams), prophet_data', optimiser)
                      saved == save_model(fitted.model, model_path, files, written)
                  IN  IF fitted.raised # ""
                      THEN /\ pipe' = Did("fit", fitted.raised)
                           /\ UNCHANGED <<model, files>>
                      ELSE IF model_path = Absent
                      THEN /\ pipe' = Did("retrain_model_with_new_data", "")
                           /\ model' = fitted.model
                           /\ UNCHANGED files
                      ELSE /\ files' = saved.files
                           /\ model' = IF saved.raised = "" THEN fitted.model ELSE model
                           /\ pipe' = IF saved.raised = ""
                                      THEN Did("retrain_model_with_new_data", "")
                                      ELSE Did("save_model", saved.raised)
    /\ UNCHANGED <<future, forecast, trials>>
    /\ UNCHANGED <<webVars, inflight, output>>

\* predict_for_dates(dates, model, prophet_data)
predict_and_save ==
    /\ prophet_data # NoFrame
    /\ \E dates \in DateLists :
          future' = predict_for_dates(dates, prophet_data)
    /\ pipe' = Did("predict_for_dates", "")
    /\ UNCHANGED <<df, prophet_data>>
    /\ UNCHANGED <<webVars, inflight, modelVars>>

\* future = add_regressors(model.make_future_dataframe(periods), prophet_data)
generate_forecast_periods ==
    /\ prophet_data # NoFrame
    /\ \E periods \in Periods :
          future' = add_regressors(make_future_dataframe(prophet_data, periods),
                                   prophet_data)
    /\ pipe' = Did("add_regressors", "")
    /\ UNCHANGED <<df, prophet_data>>
    /\ UNCHANGED <<webVars, inflight, modelVars>>

FeatNext ==
    \/ retrain_model_with_new_data
    \/ predict_and_save
    \/ generate_forecast_periods

FeatSpec == FeatInit /\ [][FeatNext]_vars

(***************************************************************************)
(* The model's life as a state machine: a table is loaded, a model is      *)
(* retrained on it and saved, and predictions are asked of the model held  *)
(* and of the model loaded from a file.                                    *)
(***************************************************************************)
\* the tables loaded: two that can be fitted, one too short for the rolling
\* windows, one without the target column
ModelTables ==
    { Table(0, MaxLen, "linear", {}, AllColumns, {}),
      Table(176, MaxLen, "uneven", {}, AllColumns, {}),
      Table(0, 3, "linear", {}, AllColumns, {}),
      Table(0, MaxLen, "linear", {}, {"Rooms Sold", "Pax"}, {}) }

ModelInit ==
    /\ InitWeb
    /\ InitModelIdle
    /\ df \in ModelTables
    /\ prophet_data = NoFrame
    /\ future = NoFrame
    /\ pipe = Did("load", "")

\* save_model(final_model, 'final_model.pkl') of the script, with the model held
save_final_model ==
    /\ model.fitted
    /\ \E filepath \in Paths, written \in WriteOutcomes :
          LET saved == save_model(model, filepath, files, written)
          IN  /\ files' = saved.files
              /\ pipe' = Did("save_final_model", saved.raised)
    /\ UNCHANGED <<df, prophet_data, future, model, forecast, trials>>
    /\ UNCHANGED <<webVars, inflight, output>>

\* pred_specific = predict_for_dates(specific_dates, model=final_model,
\* reference_df=prophet_data)
pred_specific ==
    /\ model.fitted
    /\ prophet_data # NoFrame
    /\ \E dates \in DateLists, draw \in Draws :
          /\ future' = predict_for_dates(dates, prophet_data)
          /\ forecast' = predict(model, future', draw)
    /\ pipe' = Did("pred_specific", "")
    /\ UNCHANGED <<df, prophet_data, files, model, trials>>
    /\ UNCHANGED <<webVars, inflight, output>>

\* predict_with_loaded_model(filepath, dates, reference_df=prophet_data)
predict_with_loaded_model ==
    /\ prophet_data # NoFrame
    /\ \E filepath \in Paths, dates \in DateLists, draw \in Draws :
          LET loaded == load_model(filepath, files)
          IN  IF loaded.raised # ""
              THEN /\ pipe' = Did("load_model", loaded.raised)
                   /\ UNCHANGED <<future, forecast>>
              ELSE /\ future' = predict_for_dates(dates, prophet_data)
                   /\ forecast' = predict(loaded.model, future', draw)
                   /\ pipe' = Did("predict_with_loaded_model", "")
    /\ UNCHANGED <<df, prophet_data, files, model, trials>>
    /\ UNCHANGED <<webVars, inflight, output>>

ModelNext ==
    \/ retrain_model_with_new_data
    \/ save_final_model
    \/ pred_specific
    \/ predict_with_loaded_model

ModelSpec == ModelInit /\ [][ModelNext]_vars

(***************************************************************************)
(* The training script (MODEL/prophet_python.py, from line 180): the       *)
(* feature table is prepared, fmin evaluates the objective max_evals       *)
(* times, the final model is built from best_params, fitted and saved.     *)
(* An exception that leaves a step ends the script.                        *)
(***************************************************************************)
\* evaluations of one search (the script asks max_evals=30)
MaxEvals == 2

\* table T with its rows step days apart
Spaced(T, step) ==
    [T EXCEPT !.index = [i \in DOMAIN T.index |-> T.index[1] + step * (i - 1)]]

\* the tables trained on: one that reaches over 396 days, one of consecutive days
SearchTables ==
    { Spaced(Table(0, MaxLen, "linear", {}, AllColumns, {}), 30),
      Table(0, MaxLen, "uneven", {}, AllColumns, {}) }

SearchInit ==
    /\ InitWeb
    /\ InitModelIdle
    /\ df \in SearchTables
    /\ prophet_data = prepare_prophet_data(df, target_col, exog_cols)
    /\ future = NoFrame
    /\ pipe = Did("prepare_prophet_data", "")

\* one evaluation of fmin(fn=objective, space=space, algo=tpe.suggest,
\* max_evals=30, trials=trials): values are drawn, the objective is called with
\* them and its result is recorded; fmin lets an exception of the objective pass
fmin ==
    /\ pipe \in {Did("prepare_prophet_data", ""), Did("fmin", "")}
    /\ Len(trials) < MaxEvals
    /\ \E vals \in Drawn, optimiser \in FitOutcomes, rmse \in Losses :
          LET result == objective(space_eval(vals), prophet_data, optimiser, rmse)
          IN  IF result.raised # ""
              THEN /\ pipe' = Did("fmin", result.raised)
                   /\ UNCHANGED trials
              ELSE /\ pipe' = Did("fmin", "")
                   /\ trials' = Append(trials, [vals |-> vals, loss |-> result.loss])
    /\ UNCHANGED <<df, prophet_data, future, files, model, forecast>>
    /\ UNCHANGED <<webVars, inflight, output>>

\* best = fmin(...) returns; best_params; final_model = Prophet(...); fit
final_model ==
    /\ pipe = Did("fmin", "")
    /\ Len(trials) = MaxEvals
    /\ \E optimiser \in FitOutcomes :
          LET fitted == fit(Prophet(best_params(argmin(trials))), prophet_data, optimiser)
          IN  /\ pipe' = Did("final_model", fitted.raised)
              /\ model' = IF fitted.raised = "" THEN fitted.model ELSE model
    /\ UNCHANGED <<df, prophet_data, future, files, forecast, trials>>
    /\ UNCHANGED <<webVars, inflight, output>>

SearchNext ==
    \/ fmin
    \/ final_model
    \/ save_final_model
    \/ pred_specific

SearchSpec == SearchInit /\ [][SearchNext]_vars

(***************************************************************************)
(* Reports as a state machine: a model is retrained on a loaded table,     *)
(* predictions are made for dates and written to text files.               *)
(***************************************************************************)
\* the dates asked: 2025-09-15, 06-20 and 07-01 in this order, one date twice,
\* 1 February 2026, none
ReportDates == { <<257, 170, 181>>, <<184, 184>>, <<396>>, <<>> }

\* <<yhat_lower, yhat, yhat_upper>> in sixteenths: -0.1875, 0.125, 0.375;
\* 0.0625, 0.1875, 18500.75; -0.125, -0.0625, 0
ValueRows == << <<-3, 2, 6>>, <<1, 3, 296012>>, <<-2, -1, 0>> >>

\* the numbers predicted for n rows
ValueSeqs(n) == { [i \in 1..n |-> ValueRows[((i + s) % 3) + 1]] : s \in 0..1 }

ReportInit ==
    /\ InitWeb
    /\ df = Table(176, MaxLen, "uneven", {}, AllColumns, {})
    /\ prophet_data = prepare_prophet_data(df, target_col, exog_cols)
    /\ model = fit(Prophet(RetrainParams), prophet_data, "").model
    /\ files = [p \in Paths |-> NoFile]
    /\ forecast = NoForecast
    /\ trials = <<>>
    /\ output = NoOutput
    /\ future = NoFrame
    /\ pipe = Did("retrain_model_with_new_data", "")

\* save_predictions_to_text(predictions_df, filepath) on a table of predictions
\* in any order
save_predictions_to_text ==
    /\ \E dates \in ReportDates, filepath \in TextPaths, opened \in OpenOutcomes :
          \E values \in ValueSeqs(Len(dates)) :
             LET predictions_df == Predictions(DatesFrame(dates).cols["ds"], values)
                 saved == save_predictions_to_text_result(predictions_df, filepath,
                                                          output, opened)
             IN  /\ forecast' = predictions_df
                 /\ output' = saved.output
                 /\ pipe' = Did("save_predictions_to_text", saved.raised)
    /\ UNCHANGED <<df, prophet_data, future, files, model, trials>>
    /\ UNCHANGED <<webVars, inflight>>

\* predictions = predict_and_save(model, prophet_data, dates_to_predict,
\* 'predictions.txt'): predict_for_dates, then save_predictions_to_text;
\* model.predict raises ValueError on a table without rows or with a missing
\* regressor value
predictions_txt ==
    /\ model.fitted
    /\ \E dates \in ReportDates, output_file \in TextPaths, opened \in OpenOutcomes :
          /\ future' = predict_for_dates(dates, prophet_data)
          /\ IF dates = <<>>
                \/ \E c \in DOMAIN future'.cols, i \in DOMAIN dates : future'.cols[c][i].nan
             THEN /\ pipe' = Did("predict", "ValueError")
                  /\ UNCHANGED <<forecast, output>>
             ELSE \E values \in ValueSeqs(Len(dates)) :
                     LET saved == save_predictions_to_text_result(forecast', output_file,
                                                                  output, opened)
                     IN  /\ forecast' = predicted(future', values)
                         /\ output' = saved.output
                         /\ pipe' = Did("predict_and_save", saved.raised)
    /\ UNCHANGED <<df, prophet_data, files, model, trials>>
    /\ UNCHANGED <<webVars, inflight>>

ReportNext ==
    \/ save_predictions_to_text
    \/ predictions_txt

ReportSpec == ReportInit /\ [][ReportNext]_vars

(***************************************************************************)
(* Data entry as a state machine: rows are added to a loaded table.        *)
(***************************************************************************)
\* rows of the largest table built
MaxTable == 4

\* the tables loaded: none, one or two daily rows from 2025-06-26, sorted by
\* date, one row per date
EntryTables == { Table(176, n, "linear", {}, AllColumns, {}) : n \in 0..2 }

\* dates entered: before, on and after the dates loaded
EntryDates == {170, 176, 180}

\* exogenous_values entered: None, and a dict with a column the table lacks
EntryExog == { <<>>, [c \in {"Rooms Sold", "ARR"} |-> IF c = "ARR" THEN Val(150) ELSE Val(120)] }

EntryInit ==
    /\ InitWeb
    /\ InitModelIdle
    /\ df \in EntryTables
    /\ prophet_data = NoFrame
    /\ future = NoFrame
    /\ pipe = Did("load", "")

\* df = add_new_data_row(df, date, room_revenue, exog_values)
add_new_data_row ==
    /\ Len(df.index) < MaxTable
    /\ \E date \in EntryDates, room_revenue \in {Val(18500), Val(900)},
          exogenous_values \in EntryExog :
          df' \in add_new_data_row_result(df, date, room_revenue, exogenous_values)
    /\ pipe' = Did("add_new_data_row", "")
    /\ UNCHANGED <<prophet_data, future>>
    /\ UNCHANGED <<webVars, inflight, modelVars>>

EntryNext == add_new_data_row

EntrySpec == EntryInit /\ [][EntryNext]_vars

(***************************************************************************)
(* Concurrent submissions: each worker thread runs save_hotel_data on a    *)
(* connection of its own; the calls share only the hotel_data table.  A    *)
(* call is [pc, data, fault, msg, overlapped]: where it stands, the record *)
(* it saves, what its connection does, the message of the exception it     *)
(* raised, and whether another call for the same triple was in progress    *)
(* while it ran.                                                           *)
(***************************************************************************)
Threads == {1, 2}

Idle == [pc |-> "idle", data |-> NoForm, fault |-> "none", msg |-> NoMsg,
         overlapped |-> FALSE]

\* what a call's connection does at commit
RaceFaults == {"none", "lost"}

\* the values of the call's INSERT
RowOf(call) ==
    Values(call.data, call.data["snapshot_date"].n, call.data["arrival_date"].n, session)

\* the call has connected and not yet committed or raised
InProgress(call) == call.pc \in {"connected", "executed"}

SameTriple(a, b) == Key(RowOf(a)) = Key(RowOf(b))

\* a row of the triple inserted by another transaction and not yet committed:
\* the store makes the INSERT wait for that transaction
Locked(calls, t) ==
    \E u \in Threads \ {t} : calls[u].pc = "executed" /\ SameTriple(calls[u], calls[t])

RaceInit ==
    /\ session = LoggedIn(NoSession, CHOOSE u \in users : u.is_active)
    /\ last_login = [u \in Usernames |-> \E v \in users : v.username = u /\ v.is_active]
    /\ hotel_data = <<>>
    /\ openConns = 0
    /\ req = NoRequest
    /\ resp = NoResponse
    /\ inflight = [t \in Threads |-> Idle]
    /\ InitFeatIdle
    /\ InitModelIdle

\* a request reaches save_hotel_data: connection = get_db_connection()
get_db_connection(t) ==
    /\ inflight[t].pc = "idle"
    /\ \E triple \in Triples, fault \in RaceFaults :
          LET call == [Idle EXCEPT !.pc = "connected",
                                   !.data = BaseForm(triple[1], triple[2]),
                                   !.fault = fault]
              meets(u) == u # t /\ InProgress(inflight[u]) /\ SameTriple(inflight[u], call)
          IN  inflight' = [u \in Threads |->
                             IF u = t THEN [call EXCEPT !.overlapped = \E v \in Threads : meets(v)]
                             ELSE IF meets(u) THEN [inflight[u] EXCEPT !.overlapped = TRUE]
                             ELSE inflight[u]]
    /\ UNCHANGED <<webVars, featVars, modelVars>>

\* cursor.execute(query, values): the row is inserted in the call's transaction,
\* or the store raises; while another transaction holds an uncommitted row of
\* the triple the INSERT waits, and can end with a lock wait timeout
cursor_execute(t) ==
    LET call == inflight[t]
        e == Execute(hotel_data, call.data, RowOf(call), "none")
    IN  /\ call.pc = "connected"
        /\ inflight' = [inflight EXCEPT ![t] =
               IF e # "ok" THEN [call EXCEPT !.pc = "returned", !.msg = TranslateDbError(e)]
               ELSE IF Locked(inflight, t)
               THEN [call EXCEPT !.pc = "returned", !.msg = TranslateDbError("Error")]
               ELSE [call EXCEPT !.pc = "executed"]]
        /\ UNCHANGED <<webVars, featVars, modelVars>>

\* connection.commit(), and the return through finally
connection_commit(t) ==
    LET call == inflight[t]
    IN  /\ call.pc = "executed"
        /\ IF call.fault = "lost"
           THEN /\ inflight' = [inflight EXCEPT ![t] =
                       [call EXCEPT !.pc = "returned", !.msg = TranslateDbError("Error")]]
                /\ UNCHANGED hotel_data
           ELSE /\ inflight' = [inflight EXCEPT ![t] = [call EXCEPT !.pc = "returned"]]
                /\ hotel_data' = Insert(hotel_data, RowOf(call))
        /\ UNCHANGED <<session, last_login, openConns, req, resp>>
        /\ UNCHANGED <<featVars, modelVars>>

RaceNext ==
    \E t \in Threads :
       \/ get_db_connection(t)
       \/ cursor_execute(t)
       \/ connection_commit(t)

RaceSpec == RaceInit /\ [][RaceNext]_vars

(***************************************************************************)
(* Properties of the web application, checked under Spec.                  *)
(***************************************************************************)
SubmitEndpoints == {"submit", "api_submit"}

DataSurface ==
    {"submit", "api_submit", "api_get_data", "api_get_single_record",
     "api_get_summary", "health_check"}

\* the (snapshot_date, arrival_date, actual_or_forecast) of a submission equals
\* that of a row of the table
IsDuplicate(data, table) ==
    /\ data["snapshot_date"].k = "date"
    /\ data["arrival_date"].k = "date"
    /\ data["actual_or_forecast"].k = "str"
    /\ \E i \in DOMAIN table :
          Key(table[i]) = <<data["snapshot_date"].n, data["arrival_date"].n,
                            data["actual_or_forecast"].s>>

\* the submission r would be stored if the table were empty and the store healthy
AcceptedIfFresh(r, sess) ==
    LET out == IF r.h = "submit"
               THEN submit_handler(r.data, sess, <<>>, "none", r.proc)
               ELSE api_submit_handler(r.is_json, FALSE, r.data, sess, <<>>, "none", r.proc)
    IN  Len(out.table) = 1

ViolatesRange(data) ==
    \/ data["Occupancy %"].k = "num"
       /\ (data["Occupancy %"].n < 0 \/ data["Occupancy %"].n > 1000)
    \/ /\ data["Rooms Sold"].k = "num"
       /\ data["Total Room Inventory"].k = "num"
       /\ data["Rooms Sold"].n > data["Total Room Inventory"].n
    \/ data["Room Revenue"].k = "num" /\ data["Room Revenue"].n < 0
    \/ data["ARR"].k = "num" /\ data["ARR"].n < 0

\* the four range constraints on a stored row
RowInRange(row) ==
    /\ 0 <= row.occupancy_percentage /\ row.occupancy_percentage <= 1000
    /\ row.rooms_sold <= row.total_room_inventory
    /\ row.room_revenue >= 0
    /\ row.arr >= 0

\* C2 as stated: every stored row satisfies 0 <= occupancy <= 100, rooms sold <=
\* inventory, revenue >= 0, ARR >= 0, and a submission violating one of them is
\* rejected and leaves the table as it was.
C2_AsStated ==
    [][ /\ \A i \in DOMAIN hotel_data' : RowInRange(hotel_data'[i])
        /\ (req'.h \in SubmitEndpoints /\ ViolatesRange(req'.data))
           => ( /\ hotel_data' = hotel_data
                /\ resp'.body \notin {"redirect: /", "Data saved successfully"} ) ]_vars

\* C3 as stated: a request to an endpoint of the data surface without a
\* logged-in session gets the login-required response and opens no connection
C3_AsStated ==
    (req.h \in DataSurface /\ ~req.authed)
    => ( /\ resp \in {LoginRequired(TRUE), LoginRequired(FALSE)}
         /\ req.opened = 0 )

\* C4 as stated: no request leaves a connection open at its return
C4_AsStated == openConns = 0

\* C5: no request changes or removes a row of hotel_data; rows are only added
\* at the end.
C5_AppendOnly ==
    [][ /\ Len(hotel_data') >= Len(hotel_data)
        /\ \A i \in DOMAIN hotel_data : hotel_data'[i] = hotel_data[i] ]_vars

\* a second row has just been stored behind the first
C5_Witness ==
    /\ req.h \in SubmitEndpoints
    /\ resp.code \in {200, 302}
    /\ Len(hotel_data) >= 2
    /\ hotel_data[1].id = 1
    /\ hotel_data[Len(hotel_data)].id = Len(hotel_data)

\* the stored row holds every numeric field with the value submitted (the form's
\* numbers are in tenths, the row's integer columns in units)
StoredAsSubmitted(data, row) ==
    /\ 10 * row.total_room_inventory = data["Total Room Inventory"].n
    /\ 10 * row.rooms_sold = data["Rooms Sold"].n
    /\ 10 * row.arrival_rooms = data["Arrival Rooms"].n
    /\ 10 * row.compliment_rooms = data["Compliment Rooms"].n
    /\ 10 * row.house_use = data["House Use"].n
    /\ 10 * row.individual_confirm = data["Individual Confirm"].n
    /\ 10 * row.departure_rooms = data["Departure Rooms"].n
    /\ 10 * row.ooo_rooms = data["OOO Rooms"].n
    /\ 10 * row.pax = data["Pax"].n
    /\ row.occupancy_percentage = data["Occupancy %"].n
    /\ row.room_revenue = data["Room Revenue"].n
    /\ row.arr = data["ARR"].n
    /\ row.revenue_diff = data["revenue_diff"].n
    /\ row.actual_or_forecast = data["actual_or_forecast"].s
    /\ row.day_of_week = data["Day"].s

\* C18 as stated: a submission to submit/api_submit that is accepted is stored
\* with every field exactly as submitted; none is stored as a different value
C18_AsStated ==
    [][ ( /\ req'.h \in SubmitEndpoints
          /\ Len(hotel_data') = Len(hotel_data) + 1 )
        => StoredAsSubmitted(req'.data, hotel_data'[Len(hotel_data')]) ]_vars

\* C19 as stated: no response of submit/api_submit carries the text of a
\* storage-layer error
C19_AsStated ==
    [][ req'.h \in SubmitEndpoints => ~resp'.msg.raw ]_vars

\* C21 as stated: a submission to submit/api_submit whose inventory, rooms sold
\* and occupancy ValidateHotelData is available for and reports as invalid
\* stores no row
C21_AsStated ==
    [][ (req'.h \in SubmitEndpoints /\ req'.proc = "invalid")
        => hotel_data' = hotel_data ]_vars

\* a required field is absent or blank, a date is not a YYYY-MM-DD text, or a
\* numeric field holds something that is not a number
Malformed(data) ==
    \/ MissingFields(data) # {}
    \/ \E f \in {"snapshot_date", "arrival_date"} : data[f].k # "date"
    \/ \E f \in Range(numeric_fields) : data[f].k \notin {"num", "inf"}

\* C22 as stated: a submission to submit/api_submit from a logged-in session
\* that lacks a required field, has a date not in YYYY-MM-DD form or a
\* non-numeric value in a numeric field gets a 400 response, opens no
\* connection and stores no row
C22_AsStated ==
    [][ (req'.h \in SubmitEndpoints /\ req'.authed /\ Malformed(req'.data))
        => ( /\ resp'.code = 400
             /\ req'.opened = 0
             /\ hotel_data' = hotel_data ) ]_vars

\* the endpoints decorated with @require_login
ProtectedEndpoints ==
    SubmitEndpoints \cup {"api_get_data", "api_get_single_record", "api_get_summary"}

LoginEndpoints == {"login", "api_login"}

\* C26 as stated: while nobody is logged in (after logout/api_logout, until a
\* login succeeds) every @require_login endpoint answers 401 or the redirect to
\* login and its handler does not run; and logout/api_logout leave none of
\* user, user_role, user_full_name in the session
C26_AsStated ==
    [][ /\ (req'.h \in ProtectedEndpoints /\ session.user = Absent)
           => ( /\ resp' = LoginRequired(req'.is_json)
                /\ req'.opened = 0
                /\ hotel_data' = hotel_data )
        /\ req'.h \in {"logout", "api_logout"} => session' = NoSession ]_vars

\* the users row the credentials of a login request match: an active user's
\* name and password
Matched(r) ==
    {u \in users : /\ u.is_active
                   /\ r.args.username = Str(u.username)
                   /\ r.args.password.k = "str"
                   /\ hash_password(r.args.password.s) = u.password_hash}

\* C27: a login or api_login that fails (credentials missing or wrong, user
\* inactive, database error in verify_user) leaves the session as it was; the
\* session's user is set only by a login whose credentials match an active
\* user, and then to that user's name, role and full name together.
C27_LoginSetsSession ==
    [][ /\ (req'.h \in LoginEndpoints /\ (Matched(req') = {} \/ req'.fault # "none"))
           => session' = session
        /\ (session'.user # Absent /\ session' # session)
           => ( /\ req'.h \in LoginEndpoints
                /\ req'.fault = "none"
                /\ \E u \in Matched(req') :
                      session' = [user |-> u.username, user_role |-> u.role,
                                  user_full_name |-> u.full_name] ) ]_vars

\* an inactive user's right password has just been refused after the active
\* user had logged in and out
C27_Witness ==
    /\ req.h \in LoginEndpoints
    /\ req.args.username = Str("bob")
    /\ req.args.password = Str("pw2")
    /\ resp.body \in {"login.html: Invalid username or password", "INVALID_CREDENTIALS"}
    /\ session = [user |-> Absent, user_role |-> "admin", user_full_name |-> "Alice A"]
    /\ last_login["alice"]

\* the responses of submit and api_submit that report success
Success(r) == r.body \in {"redirect: /", "Data saved successfully"}

\* C28: a submit/api_submit request in which save_hotel_data raises (the
\* handlers answer 500) leaves the stored rows as they were and does not report
\* success; success (redirect to / or 200) is reported only when the row of
\* the submission has been added, and no other response adds a row.
C28_RaiseCommitsNothing ==
    [][ req'.h \in SubmitEndpoints =>
          /\ resp'.code = 500 => (hotel_data' = hotel_data /\ ~Success(resp'))
          /\ Success(resp') =>
                /\ resp'.code \in {200, 302}
                /\ Len(hotel_data') = Len(hotel_data) + 1
                /\ SubSeq(hotel_data', 1, Len(hotel_data)) = hotel_data
                /\ Key(hotel_data'[Len(hotel_data')])
                      = <<req'.data["snapshot_date"].n, req'.data["arrival_date"].n,
                          req'.data["actual_or_forecast"].s>>
          /\ ~Success(resp') => hotel_data' = hotel_data ]_vars

\* the INSERT of a well-formed submission has failed in the database with a
\* row already stored
C28_Witness ==
    /\ req.h \in SubmitEndpoints
    /\ req.authed
    /\ req.fault \in {"lost", "error", "data_range", "integrity_other"}
    /\ resp.code = 500
    /\ resp.msg \in {MsgDbError, MsgOutOfRange, MsgConstraint}
    /\ Len(hotel_data) = 1

\* the pieces of SQL text the code holds as literals
FixedSql ==
    {"SELECT ... FROM hotel_data", " WHERE ", "arrival_date >= %s", "arrival_date <= %s",
     "actual_or_forecast = %s", "ORDER BY", "LIMIT %s OFFSET %s"}

\* the query-string values of a request that are texts or dates
Supplied(args) ==
    {args[a] : a \in {"start_date", "end_date", "actual_or_forecast", "sort_by",
                      "sort_order"}} \ {Missing, Blank}

\* C29: the text of the main query of api_get_data is made of the literals of
\* the code and, after ORDER BY, one of the ten whitelisted columns and ASC or
\* DESC (arrival_date for any other sort_by, DESC for any other sort_order);
\* the dates, actual_or_forecast, the limit and the offset are passed as bound
\* parameters only.
C29_OrderByWhitelisted ==
    [][ (req'.h = "api_get_data" /\ resp'.query # NoQuery) =>
          LET text == resp'.query.text
              n == Len(text)
              args == req'.args
              given == IF args.sort_by.k = "str" THEN args.sort_by.s ELSE "arrival_date"
              order == IF args.sort_order.k = "str" THEN args.sort_order.s ELSE "desc"
          IN  /\ \A i \in 1..n : i \notin {n - 2, n - 1} => text[i] \in FixedSql
              /\ text[n - 3] = "ORDER BY"
              /\ text[n - 2] \in valid_sort_fields
              /\ text[n - 2] = IF given \in valid_sort_fields THEN given ELSE "arrival_date"
              /\ text[n - 1] \in {"ASC", "DESC"}
              /\ text[n - 1] = IF order \in {"asc", "ASC"} THEN "ASC" ELSE "DESC"
              /\ \A v \in Supplied(args) \ {args.sort_by, args.sort_order} :
                    \/ \E i \in DOMAIN resp'.query.params : resp'.query.params[i] = v
                    \/ v.k = "str" /\ v.s \notin {"actual", "forecast"}
              /\ Len(resp'.query.params)
                    = Cardinality({i \in 1..n : text[i] \in
                                     {"arrival_date >= %s", "arrival_date <= %s",
                                      "actual_or_forecast = %s"}}) + 2 ]_vars

\* a request sorted by a column that is not whitelisted, in an order that is
\* neither asc nor desc, has been answered from a query ordered by
\* arrival_date DESC
C29_Witness ==
    /\ req.h = "api_get_data"
    /\ req.args.sort_by = Str("password")
    /\ req.args.sort_order = Str("sideways")
    /\ resp.code = 200
    /\ Len(resp.rows) = 2
    /\ resp.query.text = <<"SELECT ... FROM hotel_data", "ORDER BY", "arrival_date",
                           "DESC", "LIMIT %s OFFSET %s">>

\* two query strings that differ in the page number at most
SameQuery(a, b) == [a EXCEPT !.page = Missing] = [b EXCEPT !.page = Missing]

\* the pagination of the response s to the request r over the table is as
\* the claim has it
Paginated(r, s, table) ==
    LET page == ArgInt(r.args.page, 1)
        limit == Min(ArgInt(r.args.limit, DefaultLimit), MaxLimit)
        total == Len(Filtered(table, r.args))
        left == total - (page - 1) * limit
    IN  /\ s.pagination.page = page
        /\ s.pagination.limit = limit
        /\ s.pagination.total_records = total
        /\ s.query.params[Len(s.query.params) - 1] = IntArg(limit)
        /\ s.query.params[Len(s.query.params)] = IntArg((page - 1) * limit)
        /\ Len(s.rows) = IF left < 0 THEN 0 ELSE Min(limit, left)
        /\ s.pagination.total_pages * limit >= total
        /\ (s.pagination.total_pages - 1) * limit < total
        /\ total = 0 => s.pagination.total_pages = 0
        /\ s.pagination.has_next <=> page < s.pagination.total_pages
        /\ s.pagination.has_prev <=> page > 1

\* C30 as stated: api_get_data rejects page < 1 and limit < 1 with 400 before
\* a connection is opened; an accepted request is answered with limit =
\* min(requested, 500), offset = (page - 1) * limit, total_pages =
\* ceil(total_records / limit), has_next iff page < total_pages, has_prev iff
\* page > 1; and two pages of one query have no row in common
C30_AsStated ==
    [][ ( /\ req'.h = "api_get_data"
          /\ req'.authed
          /\ ArgIntParses(req'.args.page)
          /\ ArgIntParses(req'.args.limit) )
        => /\ (ArgInt(req'.args.page, 1) < 1 \/ ArgInt(req'.args.limit, DefaultLimit) < 1)
                => (resp'.code = 400 /\ req'.opened = 0)
           /\ resp'.code = 200 =>
                /\ ArgInt(req'.args.page, 1) >= 1
                /\ ArgInt(req'.args.limit, DefaultLimit) >= 1
                /\ Paginated(req', resp', hotel_data)
                /\ ( /\ req.h = "api_get_data"
                     /\ resp.code = 200
                     /\ SameQuery(req.args, req'.args)
                     /\ ArgInt(req.args.page, 1) # ArgInt(req'.args.page, 1) )
                   => \A i \in DOMAIN resp.rows, j \in DOMAIN resp'.rows :
                         resp.rows[i].id # resp'.rows[j].id ]_vars

(***************************************************************************)
(* Properties of the forecast pipeline, checked under FeatSpec.            *)
(***************************************************************************)
\* the feature table and the future table, once built
BuiltFrames == {prophet_data, future} \ {NoFrame}

Rows(T) == 1..Len(T.index)

DateOf(T, i) == T.cols["ds"][i].v

\* C6: in the feature table built by prepare_prophet_data and in the future
\* tables built by predict_for_dates and add_regressors, every row has exactly
\* one of day_0..day_6 equal to 1 and the other six equal to 0, and the one
\* equal to 1 is day_i for i the weekday index of the row's date.
C6_OneHotWeekday ==
    \A T \in BuiltFrames :
       /\ DayCols \subseteq DOMAIN T.cols
       /\ \A i \in Rows(T) :
             LET ones  == {k \in 0..6 : T.cols[day_col(k)][i] = Val(1)}
                 zeros == {k \in 0..6 : T.cols[day_col(k)][i] = Val(0)}
             IN  /\ Cardinality(ones) = 1
                 /\ Cardinality(zeros) = 6
                 /\ ones = {dayofweek(DateOf(T, i))}

\* a feature table covering a whole week, and a future table built by
\* predict_for_dates for a Saturday and a Sunday
C6_Witness ==
    /\ pipe.op = "predict_for_dates"
    /\ Len(prophet_data.index) >= 7
    /\ Len(future.index) = 2
    /\ future.cols["day_5"][1] = Val(1)
    /\ future.cols["day_6"][2] = Val(1)

\* C7: in the feature table and in both future tables, is_weekend is 1 exactly
\* on the rows where day_5 = 1 or day_6 = 1, and 0 on the others.
C7_WeekendFlag ==
    \A T \in BuiltFrames :
       /\ "is_weekend" \in DOMAIN T.cols
       /\ \A i \in Rows(T) :
             /\ T.cols["is_weekend"][i] \in {Val(0), Val(1)}
             /\ T.cols["is_weekend"][i] = Val(1)
                <=> (T.cols["day_5"][i] = Val(1) \/ T.cols["day_6"][i] = Val(1))

\* a future table built by add_regressors with a weekend row and a weekday row
C7_Witness ==
    /\ pipe.op = "add_regressors"
    /\ \E i, j \in Rows(future) :
          /\ future.cols["is_weekend"][i] = Val(1)
          /\ future.cols["is_weekend"][j] = Val(0)
    /\ \E i \in Rows(prophet_data) : prophet_data.cols["is_weekend"][i] = Val(1)

\* the sum, and the sum of squares, of rows lo..hi of a column
RECURSIVE WindowSum(_, _, _)
WindowSum(y, lo, hi) == IF lo > hi THEN 0 ELSE y[lo].v + WindowSum(y, lo + 1, hi)

RECURSIVE WindowSumSq(_, _, _)
WindowSumSq(y, lo, hi) ==
    IF lo > hi THEN 0 ELSE y[lo].v * y[lo].v + WindowSumSq(y, lo + 1, hi)

\* the observation table has a target column with no missing value
CompleteTarget ==
    /\ target_col \in DOMAIN df.cols
    /\ \A i \in Rows(df) : ~df.cols[target_col][i].nan

\* C8: for window W in {7, 14} and a target series of length >= W with no
\* missing value, rolling_mean_Wd and rolling_std_Wd at row i >= W are the mean
\* and the standard deviation of the W target values of rows i-W+1..i, and
\* each of rows 1..W-1 holds the value of row W.
C8_RollingStats ==
    (prophet_data # NoFrame /\ CompleteTarget)
    => \A w \in windows :
          Len(df.index) >= w
          => LET y  == df.cols[target_col]
                 m  == prophet_data.cols[rolling_col("mean", w)]
                 sd == prophet_data.cols[rolling_col("std", w)]
             IN  /\ \A i \in w..Len(y) :
                       /\ m[i] = Val(WindowSum(y, i - w + 1, i))
                       /\ sd[i] = Val(w * WindowSumSq(y, i - w + 1, i)
                                      - WindowSum(y, i - w + 1, i) * WindowSum(y, i - w + 1, i))
                 /\ \A i \in 1..(w - 1) : m[i] = m[w] /\ sd[i] = sd[w]

\* a feature table prepared from a complete series longer than both windows,
\* whose rolling values move from one row to the next
C8_Witness ==
    /\ prophet_data # NoFrame
    /\ CompleteTarget
    /\ Len(df.index) > 14
    /\ prophet_data.cols["rolling_mean_14d"][14] # prophet_data.cols["rolling_mean_14d"][15]
    /\ prophet_data.cols["rolling_std_7d"][7] # prophet_data.cols["rolling_std_7d"][8]
    /\ prophet_data.cols["rolling_mean_7d"][1] = prophet_data.cols["rolling_mean_7d"][7]

\* is_holiday as prepare_prophet_data computes it for date d
BuilderHoliday(d) ==
    prepare_prophet_data(Table(d, 1, "linear", {}, {target_col}, {}),
                         target_col, {}).cols["is_holiday"][1]

\* is_holiday as add_regressors computes it for date d
RegressorsHoliday(d) ==
    add_regressors(DatesFrame(<<d>>), prophet_data).cols["is_holiday"][1]

\* C9 as stated: for every date asked of predict_for_dates, the is_holiday it
\* computes equals the is_holiday prepare_prophet_data and add_regressors
\* compute for that date
C9_AsStated ==
    pipe.op = "predict_for_dates"
    => \A i \in Rows(future) :
          /\ future.cols["is_holiday"][i] = BuilderHoliday(DateOf(future, i))
          /\ future.cols["is_holiday"][i] = RegressorsHoliday(DateOf(future, i))

\* the columns of the reference table that are not derived from the date
CopiedCols(T) == DOMAIN T.cols \ ({"ds", "y"} \cup DayCols \cup CalendarCols)

\* the rows of a table that carry its latest date
LatestRows(T) == {k \in Rows(T) : \A j \in Rows(T) : DateOf(T, j) <= DateOf(T, k)}

PrepareCalled == {"prepare_prophet_data", "fit", "save_model", "retrain_model_with_new_data"}
PrepareReturned == PrepareCalled \ {"prepare_prophet_data"}

C24_MissingColumns ==
    [][ pipe'.op \in PrepareCalled =>
          /\ (pipe' = Did("prepare_prophet_data", "KeyError"))
                <=> (target_col \notin DOMAIN df.cols)
          /\ pipe'.op \in PrepareReturned =>
                DOMAIN prophet_data'.cols \cap exog_cols = DOMAIN df.cols \cap exog_cols
          /\ pipe'.op = "prepare_prophet_data" => prophet_data' = prophet_data ]_vars

\* a table with the target column, one of the requested exogenous columns and
\* not the other three has been prepared
C24_Witness ==
    /\ pipe.op \in PrepareReturned
    /\ DOMAIN df.cols = {target_col, "ARR"}
    /\ DOMAIN prophet_data.cols \cap exog_cols = {"ARR"}

(***************************************************************************)
(* Properties of the model files, checked under ModelSpec.                 *)
(***************************************************************************)
\* the file at path p holds a complete pickled model
HoldsModel(fs, p) == fs[p].exists /\ ~Unpicklable(fs[p].bytes)

\* prediction g was given by model m
GivenBy(g, m) == g.made /\ g.yhat[1] = m.params /\ g.yhat[2] = m.history

\* C11: when a trained model that has given predictions is saved and then loaded
\* again, the loaded model's predictions for the same dates and reference table
\* (yhat, yhat_lower, yhat_upper) are identical to those given before saving.
C11_AsStated ==
    [][ ( /\ pipe = Did("save_final_model", "")
          /\ GivenBy(forecast, model)
          /\ pipe' = Did("predict_with_loaded_model", "")
          /\ GivenBy(forecast', model)
          /\ forecast'.ds = forecast.ds )
        => ( /\ forecast'.yhat = forecast.yhat
             /\ forecast'.yhat_lower = forecast.yhat_lower
             /\ forecast'.yhat_upper = forecast.yhat_upper ) ]_vars

\* C12: load_model raises FileNotFoundError for every path at which no file
\* exists, and a predict_with_loaded_model call that ends with it makes no
\* prediction and creates or modifies no file; with no file at any path every
\* such call ends with it.
C12_LoadNotFound ==
    /\ [](\A p \in Paths :
             ~files[p].exists => load_model(p, files).raised = "FileNotFoundError")
    /\ [][ pipe' = Did("load_model", "FileNotFoundError")
             => ( /\ \E p \in Paths : ~files[p].exists
                  /\ forecast' = forecast
                  /\ future' = future
                  /\ files' = files
                  /\ model' = model ) ]_vars
    /\ [][ ( /\ \A p \in Paths : ~files[p].exists
             /\ pipe'.op \in {"load_model", "predict_with_loaded_model"} )
           => pipe' = Did("load_model", "FileNotFoundError") ]_vars

\* a load from a missing path after predictions were given and another file saved
C12_Witness ==
    /\ pipe = Did("load_model", "FileNotFoundError")
    /\ forecast.made
    /\ \E p, q \in Paths : ~files[p].exists /\ HoldsModel(files, q)

\* C13: a retrain_model_with_new_data call that fails at feature preparation, at
\* fit or at serialization leaves every complete model file as it was.
C13_AsStated ==
    [][ ( /\ pipe'.op \in {"prepare_prophet_data", "fit", "save_model"}
          /\ pipe'.error # "" )
        => \A p \in Paths : HoldsModel(files, p) => files'[p] = files[p] ]_vars

(***************************************************************************)
(* Properties of the hyperparameter search, checked under SearchSpec.      *)
(***************************************************************************)
\* C14: an evaluation of the search in which fit or cross-validation fails is
\* recorded as a trial and the search goes on: no evaluation ends the search
\* with an exception.
C14_AsStated ==
    [][ pipe'.op = "fmin"
        => ( /\ pipe'.error = ""
             /\ Len(trials') = Len(trials) + 1 ) ]_vars

\* C15: the final model, fitted and saved, has the changepoint prior scale,
\* seasonality prior scale, holidays prior scale and seasonality mode that the
\* objective was called with in the trial of the lowest loss.
C15_AsStated ==
    /\ model.fitted => model.params = space_eval(argmin(trials))
    /\ \A p \in Paths :
          HoldsModel(files, p)
          => pickle_loads(files[p].bytes).params = space_eval(argmin(trials))

(***************************************************************************)
(* Properties of data entry, checked under EntrySpec.                      *)
(***************************************************************************)
\* row i of table T on the columns cs: its date and its cells, missing where T
\* has no such column
RowOn(T, i, cs) ==
    [date |-> T.index[i],
     cells |-> [c \in cs |-> IF c \in DOMAIN T.cols THEN T.cols[c][i] ELSE NA]]

\* C16: the observation table has at most one row per date after any sequence
\* of add_new_data_row calls on a table that had at most one row per date.
C16_AsStated ==
    \A i, j \in DOMAIN df.index : df.index[i] = df.index[j] => i = j

\* how many rows of T equal row r on the columns cs
Count(T, r, cs) == Cardinality({i \in DOMAIN T.index : RowOn(T, i, cs) = r})

\* C17: the table add_new_data_row returns is sorted by date in non-decreasing
\* order, and it holds every row that was present, unchanged, plus one new
\* row, whatever the order in which dates are added.
C17_SortedAccumulating ==
    [][ pipe'.op = "add_new_data_row"
        => LET n == Len(df.index)
               cs == DOMAIN df'.cols
           IN  /\ is_monotonic_increasing(df'.index)
               /\ Len(df'.index) = n + 1
               /\ DOMAIN df.cols \subseteq cs
               /\ \E added \in 1..(n + 1) :
                     LET new == RowOn(df', added, cs)
                     IN  /\ ~new.cells["Room Revenue"].nan
                         /\ \A i \in 1..(n + 1) :
                               LET r == RowOn(df', i, cs)
                               IN  Count(df', r, cs)
                                     = Count(df, r, cs) + (IF r = new THEN 1 ELSE 0) ]_vars

\* dates were added out of order: the row added last lies before rows added
\* earlier, and the table has a column that came with a new row
C17_Witness ==
    /\ pipe.op = "add_new_data_row"
    /\ Len(df.index) = MaxTable
    /\ df.index[1] = 170
    /\ df.index[MaxTable] = 180
    /\ "ARR" \in DOMAIN df.cols
    /\ df.cols["ARR"][1] = Val(150)
    /\ df.cols["ARR"][2] = NA

(***************************************************************************)
(* Properties of concurrent submissions, checked under RaceSpec.           *)
(***************************************************************************)
Committed(call) == call.pc = "returned" /\ call.msg = NoMsg

Refused(call) == call.pc = "returned" /\ call.msg \in {MsgDuplicate, MsgDbError}

\* C20: under every interleaving of concurrent save_hotel_data calls, hotel_data
\* never holds two rows of the same (snapshot_date, arrival_date,
\* actual_or_forecast) triple; of two calls for the same triple whose
\* connections do not fail exactly one commits and the other is refused with an
\* error, and the row of a call that committed is in the table.
C20_OneRowPerTriple ==
    /\ \A i, j \in DOMAIN hotel_data :
          Key(hotel_data[i]) = Key(hotel_data[j]) => i = j
    /\ \A t \in Threads :
          Committed(inflight[t])
          => \E i \in DOMAIN hotel_data : Key(hotel_data[i]) = Key(RowOf(inflight[t]))
    /\ \A t, u \in Threads :
          ( /\ t # u
            /\ inflight[t].pc = "returned" /\ inflight[u].pc = "returned"
            /\ SameTriple(inflight[t], inflight[u])
            /\ inflight[t].fault = "none" /\ inflight[u].fault = "none" )
          => \/ Committed(inflight[t]) /\ Refused(inflight[u])
             \/ Committed(inflight[u]) /\ Refused(inflight[t])

\* two calls for one triple ran at the same time: one committed, the other
\* was refused as a duplicate, and the table has the one row
C20_Witness ==
    /\ inflight[1].overlapped /\ inflight[2].overlapped
    /\ SameTriple(inflight[1], inflight[2])
    /\ Committed(inflight[1])
    /\ inflight[2].pc = "returned" /\ inflight[2].msg = MsgDuplicate
    /\ Len(hotel_data) = 1

(***************************************************************************)
(* Properties of the text reports, checked under ReportSpec.               *)
(***************************************************************************)
\* the day a date line shows
ShownDate(l) == (l.a - 2025) * 365 + MonthStarts[l.b] + l.c - 1

\* the number a line shows, in hundredths
ShownHundredths(l) == (IF l.a = 1 THEN -1 ELSE 1) * (100 * l.b + l.c)

\* the line has the label and shows, with two decimals, the hundredth nearest
\* to the float x / 16
ShowsToTwoDecimals(l, label, x) ==
    /\ l.label = label
    /\ l.k = "num"
    /\ l.b >= 0
    /\ l.c \in 0..99
    /\ 16 * ShownHundredths(l) - 100 * x \in -8..8

\* the five lines after line number at are the block of row i of the table p
IsBlock(lines, at, p, i) ==
    /\ lines[at + 1].label = "Date: "
    /\ lines[at + 1].k = "date"
    /\ lines[at + 1].b \in 1..12
    /\ lines[at + 1].c \in 1..31
    /\ ShownDate(lines[at + 1]) = p.ds[i].v
    /\ ShowsToTwoDecimals(lines[at + 2], "Forecast: ", p.yhat[i])
    /\ ShowsToTwoDecimals(lines[at + 3], "Lower Bound (95%): ", p.yhat_lower[i])
    /\ ShowsToTwoDecimals(lines[at + 4], "Upper Bound (95%): ", p.yhat_upper[i])
    /\ lines[at + 5] = Line("------------------------------", "text", 0, 0, 0)

\* how many rows of the column ds have the date d
Times(ds, d) == Cardinality({i \in DOMAIN ds : ds[i].v = d})

\* C25: a call of save_predictions_to_text that returns has written to the
\* file at the path it returns, and to no other, the header and then one block
\* per row of the predictions in their order: the row's date as YYYY-MM-DD, the
\* point estimate, lower and upper bound to two decimals, and the separator;
\* through predict_and_save the blocks are one for each date asked.
C25_ReportBlocks ==
    [][ (pipe'.op \in {"save_predictions_to_text", "predict_and_save"} /\ pipe'.error = "")
        => LET path == output'.returned
               lines == output'.text[path]
               n == Len(forecast'.ds)
           IN  /\ path \in TextPaths
               /\ \A q \in TextPaths \ {path} : output'.text[q] = output.text[q]
               /\ Len(lines) = 3 + 5 * n
               /\ SubSeq(lines, 1, 3) = header
               /\ \A i \in 1..n : IsBlock(lines, 3 + 5 * (i - 1), forecast', i)
               /\ pipe'.op = "predict_and_save" =>
                     \A d \in 0..MonthStarts[Len(MonthStarts)] :
                        Times(forecast'.ds, d) = Times(future'.cols["ds"], d) ]_vars

\* predict_and_save asked for 15 September, 20 June and 1 July has written the
\* three blocks, 20 June first, over an earlier report
C25_Witness ==
    /\ pipe = Did("predict_and_save", "")
    /\ future.cols["ds"][1].v = 257
    /\ forecast.ds[1].v = 170
    /\ Len(output.text[output.returned]) = 18
    /\ output.text[output.returned][5].c \in {19, 6}
    /\ \E q \in TextPaths \ {output.returned} : Len(output.text[q]) = 8
====
